---- MODULE Spec2Model ----
(***************************************************************************)
(* Model of the VADI backend's cart, checkout, order and payment handlers  *)
(* (routes/cartRoute.js, routes/orderRoute.js) over the Mongoose models    *)
(* Cart, Order, Payment and Product.                                       *)
(*                                                                         *)
(* Money is kept in paise (1/100 rupee) as integers; the sums that the     *)
(* code forms in floating point are formed exactly, as fractions, and      *)
(* rounded the way Math.round(x * 100) / 100 rounds.                       *)
(*                                                                         *)
(* A request is a slot of req: the handler's local variables and the place *)
(* it has reached (pc).  Every await of a handler that touches the store   *)
(* is one step, so two requests interleave between their awaits.  Writes   *)
(* made with { session } stay in the request (tx...) until                 *)
(* commitTransaction applies them; writes made without a session reach the *)
(* store at once.                                                          *)
(***************************************************************************)
EXTENDS Integers, Sequences, FiniteSets, TLC

VARIABLES
    variants,   \* Product.variants: variant id -> [stock, price, mrp, isActive]
    products,   \* Product: product id -> [isActive]; where the variant list is followed,
                \* also [created, variants], the subdocuments' ids and isDefault flags in
                \* order; where reviews are, also [rating, reviewsCount], rating in tenths
    carts,      \* Cart collection, in creation order (status "deleted": document removed)
    orders,     \* Order collection, in creation order
    payments,   \* Payment collection, in creation order
    addresses,  \* Address collection, in creation order (deleted: document removed)
    reviews,    \* Review collection, in creation order (deleted: document removed)
    req,        \* the requests in flight
    hist        \* history: restored, per order how often each item's stock was restored;
                \* cancelled, per order whether cancelOrder committed; leaked, whether
                \* a request that failed had written stock; edits, the admin edits so far

vars == <<variants, products, carts, orders, payments, addresses, reviews, req, hist>>

(* ------------------------------ bounds -------------------------------- *)

MaxStock == 2      \* largest stock an admin sets
MaxQty == 1        \* largest quantity of one add-to-cart request
MaxCarts == 2      \* cart documents ever created
MaxOrders == 2     \* order documents ever created
MaxEdits == 1      \* admin stock edits
MaxVariants == 3   \* variants a product is given
MaxReviews == 2    \* reviews ever written

Users == {"u1", "u2"}
Variants == {"v1", "v2"}
Products == {"p1", "p2"}
Reqs == {1, 2}

(* ------------------------------ catalog ------------------------------- *)

productOf(v) == IF v = "v1" THEN "p1" ELSE "p2"

\* product.discount and product.tax of the seeded catalog
productDiscount(p) == IF p = "p1" THEN 10 ELSE 0
productTax(p) ==
    IF p = "p1" THEN [gstPercent |-> 5, inclusive |-> FALSE]
                ELSE [gstPercent |-> 5, inclusive |-> TRUE]

InitVariants ==
    [v \in Variants |->
        IF v = "v1" THEN [stock |-> 1, price |-> 10000, mrp |-> 12000, isActive |-> TRUE]
                    ELSE [stock |-> 2, price |-> 5000, mrp |-> 5000, isActive |-> TRUE]]

(* --------------------------- pricing calculator ------------------------ *)

RECURSIVE GCD(_, _)
GCD(a, b) == IF b = 0 THEN a ELSE GCD(b, a % b)

\* exact sum of two fractions <<numerator, denominator>>, reduced
FracAdd(x, y) ==
    LET n == x[1] * y[2] + y[1] * x[2]
        d == x[2] * y[2]
        g == GCD(IF n < 0 THEN -n ELSE n, d)
    IN  IF n = 0 THEN <<0, 1>> ELSE <<n \div g, d \div g>>

\* Math.round: the nearest integer, a half going up
MathRound(x) == (2 * x[1] + x[2]) \div (2 * x[2])

\* tax of one line item, in paise, as a fraction
ItemTax(item) ==
    IF item.tax.gstPercent > 0
    THEN IF item.tax.inclusive
         THEN <<item.unitPrice * item.tax.gstPercent * item.quantity,
                100 + item.tax.gstPercent>>
         ELSE <<item.unitPrice * item.tax.gstPercent * item.quantity, 100>>
    ELSE <<0, 1>>

RECURSIVE SumFrac(_)
SumFrac(fs) == IF fs = <<>> THEN <<0, 1>> ELSE FracAdd(Head(fs), SumFrac(Tail(fs)))

RECURSIVE SumSeq(_)
SumSeq(ns) == IF ns = <<>> THEN 0 ELSE Head(ns) + SumSeq(Tail(ns))

\* the forEach of calculateCartTotals: only active items count
SumTax(items) ==
    SumFrac([i \in 1..Len(items) |->
                IF items[i].isActive THEN ItemTax(items[i]) ELSE <<0, 1>>])

ItemSubtotal(item) == item.unitPrice * item.quantity
ItemDiscount(item) ==
    IF item.discount > 0 /\ item.mrp # 0
    THEN (item.mrp - item.unitPrice) * item.quantity
    ELSE 0

\* a rule that lets the first item alone decide
firstItemNonInclusive(items) == items # <<>> /\ ~items[1].tax.inclusive

\* items.some((item) => item.tax && !item.tax.inclusive)
hasNonInclusiveTax(items) ==
    \E i \in 1..Len(items) : ~items[i].tax.inclusive

calculateCartTotals(items) ==
    LET act(i) == items[i].isActive
        idx == 1..Len(items)
        subtotal == SumSeq([i \in idx |-> IF act(i) THEN ItemSubtotal(items[i]) ELSE 0])
        taxAmount == SumTax(items)
        grandTotal == IF hasNonInclusiveTax(items)
                      THEN FracAdd(<<subtotal, 1>>, taxAmount)
                      ELSE <<subtotal, 1>>
    IN  [totalItems    |-> Cardinality({i \in idx : act(i)}),
         totalQuantity |-> SumSeq([i \in idx |-> IF act(i) THEN items[i].quantity ELSE 0]),
         subtotal      |-> subtotal,
         totalDiscount |-> SumSeq([i \in idx |-> IF act(i) THEN ItemDiscount(items[i]) ELSE 0]),
         taxAmount     |-> MathRound(taxAmount),
         grandTotal    |-> MathRound(grandTotal)]

ZeroTotals ==
    [totalItems |-> 0, totalQuantity |-> 0, subtotal |-> 0,
     totalDiscount |-> 0, taxAmount |-> 0, grandTotal |-> 0]

(* ------------------------------ cart helpers --------------------------- *)

createCartItem(v, quantity) ==
    [product   |-> productOf(v),
     variantId |-> v,
     unitPrice |-> variants[v].price,
     mrp       |-> variants[v].mrp,
     discount  |-> productDiscount(productOf(v)),
     tax       |-> productTax(productOf(v)),
     quantity  |-> quantity,
     subtotal  |-> variants[v].price * quantity,
     isActive  |-> TRUE]

\* items.findIndex by (product, variantId); 0 when absent
RECURSIVE findIndexFrom(_, _, _)
findIndexFrom(items, v, i) ==
    IF i > Len(items) THEN 0
    ELSE IF items[i].product = productOf(v) /\ items[i].variantId = v THEN i
    ELSE findIndexFrom(items, v, i + 1)

\* a search that starts past the last item and so finds nothing
findItemIndexPastEnd(items, v) == findIndexFrom(items, v, Len(items) + 1)

findItemIndex(items, v) == findIndexFrom(items, v, 1)

\* Cart.findOne({ user, status: "active" }): the first such document, 0 when none
RECURSIVE findCartFrom(_, _, _)
findCartFrom(cs, u, i) ==
    IF i > Len(cs) THEN 0
    ELSE IF cs[i].user = u /\ cs[i].status = "active" THEN i
    ELSE findCartFrom(cs, u, i + 1)

findActiveCart(u) == findCartFrom(carts, u, 1)

\* the schema's validators, which save() runs before writing
CartItemValid(item) ==
    /\ item.quantity >= 1
    /\ item.unitPrice >= 0
    /\ item.mrp >= 0
    /\ item.subtotal >= 0

CartValid(c) ==
    /\ Len(c.items) > 0
    /\ \A i \in 1..Len(c.items) : CartItemValid(c.items[i])
    /\ c.totals.totalItems >= 0
    /\ c.totals.totalQuantity >= 0
    /\ c.totals.subtotal >= 0
    /\ c.totals.totalDiscount >= 0
    /\ c.totals.taxAmount >= 0
    /\ c.totals.grandTotal >= 0

(* ------------------------------ documents ------------------------------ *)

\* an enum of payment.status that also lists "cancelled"
OrderPaymentStatusEnumWithCancelled == {"pending", "paid", "failed", "refunded", "cancelled"}

\* the enum of payment.status in OrderSchema
OrderPaymentStatusEnum == {"pending", "paid", "failed", "refunded"}

OrderStatusEnum ==
    {"placed", "confirmed", "packed", "out_for_delivery", "delivered", "cancelled", "returned"}

\* the enum of status in PaymentSchema
PaymentStatusEnum ==
    {"initiated", "pending", "success", "failed", "cancelled", "refunded", "partial_refund"}

PaymentMethods == {"cod", "upi", "card", "wallet"}

\* the validators OrderSchema runs before a save
OrderValid(o) ==
    /\ Len(o.items) > 0
    /\ o.status \in OrderStatusEnum
    /\ o.payment.method \in PaymentMethods
    /\ o.payment.status \in OrderPaymentStatusEnum

\* OrderSchema.pre("save"): runs after validation
OrderPreSave(o) ==
    IF o.payment.method = "cod"
    THEN [o EXCEPT !.payment.isCod = TRUE, !.payment.status = "pending"]
    ELSE o

PaymentValid(p) ==
    /\ p.method \in PaymentMethods
    /\ p.status \in PaymentStatusEnum

\* PaymentSchema.pre("save")
PaymentPreSave(p) ==
    IF p.method = "cod" THEN [p EXCEPT !.isCod = TRUE, !.status = "pending"] ELSE p

\* Payment.findOneAndUpdate({ order }, update): the first payment of the order
RECURSIVE findPaymentFrom(_, _, _)
findPaymentFrom(ps, o, i) ==
    IF i > Len(ps) THEN 0
    ELSE IF ps[i].order = o THEN i
    ELSE findPaymentFrom(ps, o, i + 1)

findPayment(o) == findPaymentFrom(payments, o, 1)

ItemVariants(items) == {items[i].variantId : i \in 1..Len(items)}

(* ------------------------------ requests ------------------------------- *)

IdleReq ==
    [op      |-> "idle",    \* place | cancel | status | verify
     pc      |-> "idle",
     user    |-> "none",
     arg     |-> "none",    \* paymentMethod (place), status (status); cancel: the status read
     cid     |-> 0,         \* the cart found
     cart    |-> <<>>,      \* the cart document as read
     oid     |-> 0,         \* the order addressed
     order   |-> <<>>,      \* the order document in memory
     pay     |-> <<>>,      \* the order's payment as the session's snapshot has it
     aid     |-> 0,         \* the address addressed
     orderNumber |-> "none", \* the order number generated
     address |-> <<>>,      \* the address document in memory
     i       |-> 0,         \* items handled by the loop in progress
     issues  |-> <<>>,      \* stockIssues
     txOrder |-> <<>>,      \* order written in the open transaction
     txPay   |-> <<>>,      \* payment written in the open transaction
     txCart  |-> FALSE,     \* cart status written in the open transaction
     fault   |-> FALSE,     \* the store failed under this request (connection, timeout)
     result  |-> "none"]    \* ok | rejected (4xx) | error (500)

Running(r) == req[r].pc \notin {"idle", "done"}

\* a new request takes the first free slot
Free(r) == req[r].pc = "idle" /\ \A x \in Reqs : x < r => req[x].pc # "idle"

\* a document written inside an open transaction is locked until it ends
CartLocked(c) == \E r \in Reqs : Running(r) /\ req[r].op = "place" /\ req[r].txCart /\ req[r].cid = c
OrderLocked(o) == \E r \in Reqs : Running(r) /\ req[r].op = "cancel" /\ req[r].txOrder # <<>> /\ req[r].oid = o
PaymentLocked(o) == \E r \in Reqs : Running(r) /\ req[r].op = "cancel" /\ req[r].txPay # <<>> /\ req[r].oid = o

\* the response: what the handler held in memory is gone, the outcome stays
Finish(rec, res) ==
    [IdleReq EXCEPT !.op = rec.op, !.pc = "done",
                    !.arg = IF rec.op = "cancel" THEN rec.arg ELSE "none",
                    !.cid = rec.cid, !.oid = rec.oid, !.i = rec.i,
                    !.issues = rec.issues, !.fault = rec.fault, !.result = res]

\* the store before any cart, order or payment exists
InitEmpty ==
    /\ variants = InitVariants
    /\ products = [p \in Products |-> [isActive |-> TRUE]]
    /\ addresses = <<>>
    /\ carts = <<>>
    /\ orders = <<>>
    /\ payments = <<>>
    /\ reviews = <<>>
    /\ req = [r \in Reqs |-> IdleReq]
    /\ hist = [restored |-> <<>>, cancelled |-> <<>>, leaked |-> FALSE, edits |-> 0]

\* the cart that add-to-cart requests for the listed <<variant, quantity>> pairs leave
CartOf(u, adds) ==
    LET items == [i \in 1..Len(adds) |->
                    [product   |-> productOf(adds[i][1]),
                     variantId |-> adds[i][1],
                     unitPrice |-> InitVariants[adds[i][1]].price,
                     mrp       |-> InitVariants[adds[i][1]].mrp,
                     discount  |-> productDiscount(productOf(adds[i][1])),
                     tax       |-> productTax(productOf(adds[i][1])),
                     quantity  |-> adds[i][2],
                     subtotal  |-> InitVariants[adds[i][1]].price * adds[i][2],
                     isActive  |-> TRUE]]
    IN  [user |-> u, items |-> items, totals |-> calculateCartTotals(items), status |-> "active"]

\* what the users have put into their carts when checkout begins
InitAdds == {<<<<"v1", 1>>>>} \cup {<<<<"v1", 1>>, <<"v2", q>>>> : q \in 1..MaxQty}

\* each user holds an active cart filled through add-to-cart
Init ==
    /\ variants = InitVariants
    /\ products = [p \in Products |-> [isActive |-> TRUE]]
    /\ addresses = <<>>
    /\ \E a1 \in InitAdds : carts = <<CartOf("u1", a1), CartOf("u2", <<<<"v1", 1>>>>)>>
    /\ orders = <<>>
    /\ payments = <<>>
    /\ reviews = <<>>
    /\ req = [r \in Reqs |-> IdleReq]
    /\ hist = [restored |-> <<>>, cancelled |-> <<>>, leaked |-> FALSE, edits |-> 0]

(* ------------------------------ cart: add ------------------------------ *)

\* the cart with new items and the totals it had before
WithStaleTotals(cart, items) == [cart EXCEPT !.items = items]

\* Object.assign(cart, calculateCartTotals(cart.items)) on the edited items
WithTotals(cart, items) ==
    [cart EXCEPT !.items = items, !.totals = calculateCartTotals(items)]

\* Cart.findByIdAndDelete: the document is gone, its slot is kept so that the
\* other documents keep their ids
DeletedCart(cart) ==
    [user |-> cart.user, items |-> <<>>, totals |-> ZeroTotals, status |-> "deleted"]

\* the response of router.post("/add") as the client sees it: 200 "ok", 400/404
\* "rejected" with its message, 500 "error"
AddResponse(u, v, quantity, res, message) ==
    [IdleReq EXCEPT !.op = "add", !.pc = "done", !.user = u, !.arg = v, !.i = quantity,
                    !.issues = message, !.result = res]

\* router.post("/add")
AddItem(r, u, v, quantity) ==
    LET p == productOf(v)
        variant == variants[v]
        found == findActiveCart(u)
        cart == IF found = 0
                THEN [user |-> u, items |-> <<>>, totals |-> ZeroTotals, status |-> "active"]
                ELSE carts[found]
        existingItemIndex == findItemIndex(cart.items, v)
        newQuantity == cart.items[existingItemIndex].quantity + quantity
        items == IF existingItemIndex > 0
                 THEN [cart.items EXCEPT ![existingItemIndex].quantity = newQuantity,
                                         ![existingItemIndex].subtotal =
                                             cart.items[existingItemIndex].unitPrice * newQuantity]
                 ELSE Append(cart.items, createCartItem(v, quantity))
        saved == WithTotals(cart, items)
        message == IF quantity < 1 THEN <<"Quantity must be at least 1">>
                   ELSE IF ~products[p].isActive THEN <<"Product not found or inactive">>
                   ELSE IF ~variant.isActive THEN <<"Variant not found or inactive">>
                   ELSE IF variant.stock < quantity THEN <<"Insufficient stock">>
                   ELSE IF existingItemIndex > 0 /\ variant.stock < newQuantity
                   THEN <<"Cannot add more">>
                   ELSE <<>>
    IN  /\ req[r].pc = "idle"
        /\ found # 0 => ~CartLocked(found)
        /\ IF message # <<>>
           THEN /\ req' = [req EXCEPT ![r] = AddResponse(u, v, quantity, "rejected", message)]
                /\ UNCHANGED carts
           ELSE IF ~CartValid(saved)
           THEN /\ req' = [req EXCEPT ![r] = AddResponse(u, v, quantity, "error", <<>>)]
                /\ UNCHANGED carts
           ELSE /\ found = 0 => Len(carts) < MaxCarts
                /\ carts' = IF found = 0 THEN Append(carts, saved)
                            ELSE [carts EXCEPT ![found] = saved]
                /\ req' = [req EXCEPT ![r] = AddResponse(u, v, quantity, "ok", <<>>)]
        /\ UNCHANGED <<variants, products, addresses, reviews, orders, payments, hist>>

(* --------------------- cart: add, await by await ----------------------- *)

\* router.post("/add") up to the product it awaits: the request's validation
\* and the checks on the product document read by Product.findOne
AddItemBegin(r, u, v, quantity) ==
    LET p == productOf(v)
        variant == variants[v]
        message == IF quantity < 1 THEN <<"Quantity must be at least 1">>
                   ELSE IF ~products[p].isActive THEN <<"Product not found or inactive">>
                   ELSE IF ~variant.isActive THEN <<"Variant not found or inactive">>
                   ELSE IF variant.stock < quantity THEN <<"Insufficient stock">>
                   ELSE <<>>
    IN  /\ Free(r)
        /\ req' = [req EXCEPT ![r] =
                      IF message # <<>> THEN AddResponse(u, v, quantity, "rejected", message)
                      ELSE [IdleReq EXCEPT !.op = "add", !.pc = "findCart", !.user = u,
                                           !.arg = v, !.i = quantity]]
        /\ UNCHANGED <<variants, products, addresses, reviews, carts, orders, payments, hist>>

\* what cart.save() sends for a document read earlier: a new document is
\* inserted; a pushed line is appended to the stored array; a line changed in
\* place is set by its position, which the store refuses once the stored array
\* has been changed by another save since the read; the totals are set as
\* computed in memory
SaveCart(cs, cid, read, saved) ==
    IF cid = 0 THEN Append(cs, saved)
    ELSE IF Len(saved.items) > Len(read.items)
    THEN [cs EXCEPT ![cid].items = Append(@, saved.items[Len(saved.items)]),
                    ![cid].totals = saved.totals]
    ELSE [cs EXCEPT ![cid].items = [i \in 1..Len(@) |->
                                       IF saved.items[i] # read.items[i] THEN saved.items[i]
                                       ELSE @[i]],
                    ![cid].totals = saved.totals]

\* the rest of router.post("/add"), one await at a time
AddItemStep(r) ==
    LET rec == req[r]
        u == rec.user
        v == rec.arg
        quantity == rec.i
        found == findActiveCart(u)
        read == IF found = 0
                THEN [user |-> u, items |-> <<>>, totals |-> ZeroTotals, status |-> "active"]
                ELSE carts[found]
        cart == rec.cart
        existingItemIndex == findItemIndex(cart.items, v)
        newQuantity == cart.items[existingItemIndex].quantity + quantity
        items == IF existingItemIndex > 0
                 THEN [cart.items EXCEPT ![existingItemIndex].quantity = newQuantity,
                                         ![existingItemIndex].subtotal =
                                             cart.items[existingItemIndex].unitPrice * newQuantity]
                 ELSE Append(cart.items, createCartItem(v, quantity))
        saved == WithTotals(cart, items)
        diverged == /\ rec.cid # 0
                    /\ existingItemIndex > 0
                    /\ Len(carts[rec.cid].items) # Len(cart.items)
    IN  /\ rec.op = "add"
        /\ Running(r)
        /\ CASE rec.pc = "findCart" ->
                  \* Cart.findOne, then the check of a line already in the cart
                  /\ found # 0 => ~CartLocked(found)
                  /\ LET at == findItemIndex(read.items, v)
                     IN  IF at > 0 /\ variants[v].stock < read.items[at].quantity + quantity
                         THEN req' = [req EXCEPT ![r] =
                                  AddResponse(u, v, quantity, "rejected", <<"Cannot add more">>)]
                         ELSE req' = [req EXCEPT ![r].pc = "save", ![r].cid = found,
                                                 ![r].cart = read]
                  /\ UNCHANGED carts
             [] rec.pc = "save" ->
                  /\ rec.cid # 0 => ~CartLocked(rec.cid)
                  /\ IF ~CartValid(saved) \/ diverged
                     THEN /\ req' = [req EXCEPT ![r] = AddResponse(u, v, quantity, "error", <<>>)]
                          /\ UNCHANGED carts
                     ELSE /\ rec.cid = 0 => Len(carts) < MaxCarts
                          /\ carts' = SaveCart(carts, rec.cid, cart, saved)
                          /\ req' = [req EXCEPT ![r] =
                                        [AddResponse(u, v, quantity, "ok", <<>>) EXCEPT
                                            !.cid = IF rec.cid = 0 THEN Len(carts) + 1 ELSE rec.cid]]
        /\ UNCHANGED <<variants, products, addresses, reviews, orders, payments, hist>>

(* ------------------- cart: update, remove, clear, validate ------------- *)

\* items.splice(i, 1)
RemoveAt(items, i) == SubSeq(items, 1, i - 1) \o SubSeq(items, i + 1, Len(items))

\* a tail that writes the cart as it is, emptied or not
StoreCartAlways(found, items) ==
    carts' = [carts EXCEPT ![found] = WithTotals(carts[found], items)]

\* the handlers' tail: an emptied cart is deleted, any other is saved with its
\* totals recomputed, if the schema accepts it
StoreCart(found, items) ==
    IF items = <<>>
    THEN carts' = [carts EXCEPT ![found] = DeletedCart(carts[found])]
    ELSE /\ CartValid(WithTotals(carts[found], items))
         /\ carts' = [carts EXCEPT ![found] = WithTotals(carts[found], items)]

\* router.put("/update")
UpdateQuantity(u, v, quantity) ==
    LET found == findActiveCart(u)
        cart == carts[found]
        itemIndex == findItemIndex(cart.items, v)
        items == IF quantity = 0
                 THEN RemoveAt(cart.items, itemIndex)
                 ELSE [cart.items EXCEPT ![itemIndex].quantity = quantity,
                                         ![itemIndex].subtotal =
                                             cart.items[itemIndex].unitPrice * quantity]
    IN  /\ quantity >= 0
        /\ found # 0
        /\ itemIndex # 0
        /\ quantity # 0 => variants[v].stock >= quantity
        /\ ~CartLocked(found)
        /\ StoreCart(found, items)
        /\ UNCHANGED <<variants, products, addresses, reviews, orders, payments, req, hist>>

\* router.delete("/remove")
RemoveItem(u, v) ==
    LET found == findActiveCart(u)
        cart == carts[found]
        items == SelectSeq(cart.items,
                     LAMBDA item : ~(item.product = productOf(v) /\ item.variantId = v))
    IN  /\ found # 0
        /\ Len(items) # Len(cart.items)
        /\ ~CartLocked(found)
        /\ StoreCart(found, items)
        /\ UNCHANGED <<variants, products, addresses, reviews, orders, payments, req, hist>>

\* a clear that puts a unit of every variant in the cart back into the stock
ClearCartRestocking(u) ==
    LET found == findActiveCart(u)
    IN  /\ found # 0
        /\ ~CartLocked(found)
        /\ carts' = [carts EXCEPT ![found] = DeletedCart(carts[found])]
        /\ variants' = [v \in Variants |->
                           IF v \in ItemVariants(carts[found].items)
                           THEN [variants[v] EXCEPT !.stock = @ + 1]
                           ELSE variants[v]]
        /\ UNCHANGED <<products, addresses, reviews, orders, payments, req, hist>>

\* router.delete("/clear")
ClearCart(u) ==
    LET found == findActiveCart(u)
    IN  /\ found # 0
        /\ ~CartLocked(found)
        /\ carts' = [carts EXCEPT ![found] = DeletedCart(carts[found])]
        /\ UNCHANGED <<variants, products, addresses, reviews, orders, payments, req, hist>>

\* a line whose product is active, whatever its variant
AvailableProductOnly(item) == products[item.product].isActive

\* the two checks of the loop of router.post("/validate"): the product exists
\* and is active, the variant exists and is active
Available(item) == products[item.product].isActive /\ variants[item.variantId].isActive

\* the loop of router.post("/validate"): unavailable items are dropped, changed
\* prices are copied into the kept ones
RECURSIVE validItems(_)
validItems(items) ==
    IF items = <<>> THEN <<>>
    ELSE LET item == Head(items)
             variant == variants[item.variantId]
         IN  IF ~Available(item)
             THEN validItems(Tail(items))
             ELSE <<IF variant.price # item.unitPrice
                    THEN [item EXCEPT !.unitPrice = variant.price,
                                      !.mrp = variant.mrp,
                                      !.subtotal = variant.price * item.quantity]
                    ELSE item>> \o validItems(Tail(items))

\* the issues the loop of router.post("/validate") reports, item by item
RECURSIVE validateIssues(_)
validateIssues(items) ==
    IF items = <<>> THEN <<>>
    ELSE LET item == Head(items)
             variant == variants[item.variantId]
             found == IF ~products[item.product].isActive
                      THEN <<"Product no longer available">>
                      ELSE IF ~variant.isActive THEN <<"Variant no longer available">>
                      ELSE (IF variant.stock < item.quantity
                            THEN <<"Insufficient stock">> ELSE <<>>)
                           \o (IF variant.price # item.unitPrice
                               THEN <<"Price changed">> ELSE <<>>)
         IN  found \o validateIssues(Tail(items))

\* the response of router.post("/validate"): 200 "ok" with its issues, 500 "error"
ValidateResponse(u, res, issues) ==
    [IdleReq EXCEPT !.op = "validate", !.pc = "done", !.user = u, !.issues = issues,
                    !.result = res]

\* router.post("/validate")
ValidateCart(r, u) ==
    LET found == findActiveCart(u)
        items == validItems(carts[found].items)
        issues == validateIssues(carts[found].items)
    IN  /\ req[r].pc = "idle"
        /\ found # 0 => ~CartLocked(found)
        /\ IF found = 0
           THEN /\ req' = [req EXCEPT ![r] = ValidateResponse(u, "ok", <<>>)]
                /\ UNCHANGED carts
           ELSE IF items # <<>> /\ ~CartValid(WithTotals(carts[found], items))
           THEN /\ req' = [req EXCEPT ![r] = ValidateResponse(u, "error", <<>>)]
                /\ UNCHANGED carts
           ELSE /\ StoreCart(found, items)
                /\ req' = [req EXCEPT ![r] = ValidateResponse(u, "ok", issues)]
        /\ UNCHANGED <<variants, products, addresses, reviews, orders, payments, hist>>

(* --------------------------- admin: catalog edits ---------------------- *)

\* router.put("/:id/variants/:variantId") with a price and an isActive flag
UpdateVariant(v, price, isActive) ==
    /\ hist.edits < MaxEdits
    /\ variants' = [variants EXCEPT ![v].price = price, ![v].isActive = isActive]
    /\ hist' = [hist EXCEPT !.edits = @ + 1]
    /\ UNCHANGED <<products, addresses, reviews, carts, orders, payments, req>>

\* router.delete("/:id") of the products: the soft delete
DeactivateProduct(p) ==
    /\ hist.edits < MaxEdits
    /\ products' = [products EXCEPT ![p].isActive = FALSE]
    /\ hist' = [hist EXCEPT !.edits = @ + 1]
    /\ UNCHANGED <<variants, addresses, reviews, carts, orders, payments, req>>

(* --------------------------- admin: stock edit ------------------------- *)

\* router.patch("/:id/variants/:variantId/stock")
SetStock(v, stock) ==
    /\ stock >= 0
    /\ hist.edits < MaxEdits
    /\ variants' = [variants EXCEPT ![v].stock = stock]
    /\ hist' = [hist EXCEPT !.edits = @ + 1]
    /\ UNCHANGED <<products, addresses, reviews, carts, orders, payments, req>>

(* ------------------------------ placeOrder ----------------------------- *)

Placing == {r \in Reqs : req[r].op = "place" /\ Running(r)}

\* router.post("/"): the checks on the body, then Cart.findOne in the session
PlaceOrderBegin(r, u, paymentMethod) ==
    LET found == findActiveCart(u)
        rec == [IdleReq EXCEPT !.op = "place", !.user = u, !.arg = paymentMethod]
    IN  /\ Free(r)
        /\ Len(orders) + Cardinality(Placing) < MaxOrders
        /\ req' = [req EXCEPT ![r] =
              IF paymentMethod \notin {"cod", "upi", "card", "wallet"}
              THEN Finish(rec, "rejected")
              ELSE IF found = 0 \/ Len(carts[found].items) = 0
              THEN Finish(rec, "rejected")
              ELSE [rec EXCEPT !.pc = "validate", !.cid = found, !.cart = <<carts[found]>>]]
        /\ UNCHANGED <<variants, products, addresses, reviews, carts, orders, payments, hist>>

\* a check of the stock alone
StockIssueStockOnly(item) ==
    IF variants[item.variantId].stock < item.quantity THEN "Insufficient stock" ELSE ""

\* validateOrderStock: what one turn of its loop pushes for an item ("" when nothing)
StockIssue(item) ==
    IF ~products[item.product].isActive THEN "Product not available"
    ELSE IF ~variants[item.variantId].isActive THEN "Variant not available"
    ELSE IF variants[item.variantId].stock < item.quantity THEN "Insufficient stock"
    ELSE ""

\* reduceStock: the $inc of one item
reduceStock(item) ==
    [variants EXCEPT ![item.variantId].stock = @ - item.quantity]

\* the catch block: abortTransaction drops what the session wrote, the response is a 500;
\* fault tells a failure of the store itself from an error the handler ran into
Abort(rec, fault) == Finish([rec EXCEPT !.fault = fault], "error")

\* history: the request that fails has written stock outside its transaction
Leak(rec) == [hist EXCEPT !.leaked = @ \/ rec.i > 0]

NewOrder(rec) ==
    [user    |-> rec.user,
     items   |-> rec.cart[1].items,
     totals  |-> rec.cart[1].totals,
     status  |-> "placed",
     payment |-> [method |-> rec.arg,
                  status |-> IF rec.arg = "cod" THEN "pending" ELSE "pending",
                  isCod |-> rec.arg = "cod",
                  codCollected |-> FALSE],
     cart    |-> rec.cid]

\* a Payment created pending whatever the method
NewPaymentPending(rec) ==
    [order  |-> Len(orders) + 1,
     user   |-> rec.user,
     method |-> rec.arg,
     status |-> "pending",
     isCod  |-> rec.arg = "cod",
     codCollected |-> FALSE]

\* new Payment({...}) of router.post("/")
NewPayment(rec) ==
    [order  |-> Len(orders) + 1,
     user   |-> rec.user,
     method |-> rec.arg,
     status |-> IF rec.arg = "cod" THEN "pending" ELSE "initiated",
     isCod  |-> rec.arg = "cod",
     codCollected |-> FALSE]

\* router.post("/"): one await of the handler after the cart was read
PlaceOrderStep(r) ==
    LET rec == req[r]
        cart == rec.cart[1]
        item == cart.items[rec.i + 1]
        last == rec.i + 1 = Len(cart.items)
    IN
    /\ rec.op = "place"
    /\ Running(r)
    /\ \E fail \in BOOLEAN :
        CASE rec.pc = "validate" ->
                LET issues == IF StockIssue(item) = "" THEN rec.issues
                              ELSE Append(rec.issues,
                                          [variantId |-> item.variantId, issue |-> StockIssue(item)])
                IN  /\ ~fail
                    /\ req' = [req EXCEPT ![r] =
                          IF ~last THEN [rec EXCEPT !.i = @ + 1, !.issues = issues]
                          ELSE IF issues # <<>>
                          THEN Finish([rec EXCEPT !.i = 0, !.issues = issues], "rejected")
                          ELSE [rec EXCEPT !.i = 0, !.pc = "saveOrder"]]
                    /\ UNCHANGED <<variants, carts, orders, payments, hist>>
          [] rec.pc = "saveOrder" ->
                /\ req' = [req EXCEPT ![r] =
                      IF fail \/ ~OrderValid(NewOrder(rec)) THEN Abort(rec, fail)
                      ELSE [rec EXCEPT !.txOrder = <<OrderPreSave(NewOrder(rec))>>,
                                       !.pc = "savePayment"]]
                /\ UNCHANGED <<variants, carts, orders, payments, hist>>
          [] rec.pc = "savePayment" ->
                /\ req' = [req EXCEPT ![r] =
                      IF fail \/ ~PaymentValid(NewPayment(rec)) THEN Abort(rec, fail)
                      ELSE [rec EXCEPT !.txPay = <<PaymentPreSave(NewPayment(rec))>>,
                                       !.pc = "reduceStock"]]
                /\ UNCHANGED <<variants, carts, orders, payments, hist>>
          [] rec.pc = "reduceStock" ->
                IF fail
                THEN /\ req' = [req EXCEPT ![r] = Abort(rec, fail)]
                     /\ hist' = Leak(rec)
                     /\ UNCHANGED <<variants, carts, orders, payments>>
                ELSE /\ variants' = reduceStock(item)
                     /\ req' = [req EXCEPT ![r] =
                           [rec EXCEPT !.i = @ + 1,
                                       !.pc = IF last THEN "saveCart" ELSE "reduceStock"]]
                     /\ UNCHANGED <<carts, orders, payments, hist>>
          [] rec.pc = "saveCart" ->
                \* the cart changed since the session read it, or another session holds it
                /\ req' = [req EXCEPT ![r] =
                      IF fail \/ carts[rec.cid] # cart \/ CartLocked(rec.cid) THEN Abort(rec, fail)
                      ELSE [rec EXCEPT !.txCart = TRUE, !.pc = "commit"]]
                /\ hist' = IF fail \/ carts[rec.cid] # cart \/ CartLocked(rec.cid)
                           THEN Leak(rec) ELSE hist
                /\ UNCHANGED <<variants, carts, orders, payments>>
          [] rec.pc = "commit" ->
                IF fail
                THEN /\ req' = [req EXCEPT ![r] = Abort(rec, fail)]
                     /\ hist' = Leak(rec)
                     /\ UNCHANGED <<variants, carts, orders, payments>>
                ELSE /\ orders' = Append(orders, rec.txOrder[1])
                     /\ payments' = Append(payments, [rec.txPay[1] EXCEPT !.order = Len(orders) + 1])
                     /\ carts' = [carts EXCEPT ![rec.cid].status = "converted"]
                     /\ hist' = [hist EXCEPT !.restored = Append(@, [k \in 1..Len(cart.items) |-> 0]),
                                              !.cancelled = Append(@, FALSE)]
                     /\ req' = [req EXCEPT ![r] = Finish([rec EXCEPT !.oid = Len(orders) + 1], "ok")]
                     /\ UNCHANGED variants
    /\ UNCHANGED <<products, addresses, reviews>>

(* ------------------------------ cancelOrder ---------------------------- *)

\* restoreStock: the $inc of one item
restoreStock(item) ==
    [variants EXCEPT ![item.variantId].stock = @ + item.quantity]

\* the refusal without the out-for-delivery rule
NotCancellableWithoutDelivery == {"delivered", "cancelled", "returned"}

\* the statuses router.post("/:id/cancel") refuses to cancel
NotCancellable == {"delivered", "cancelled", "returned", "out_for_delivery"}

\* router.post("/:id/cancel"): Order.findById in the session and the checks on it
CancelOrderBegin(r, o, userId) ==
    LET order == orders[o]
        rec == [IdleReq EXCEPT !.op = "cancel", !.user = userId, !.oid = o,
                               !.arg = order.status, !.order = <<order>>]
    IN  /\ Free(r)
        /\ o \in 1..Len(orders)
        /\ req' = [req EXCEPT ![r] =
              IF userId # "none" /\ order.user # userId THEN Finish(rec, "rejected")
              ELSE IF order.status \in NotCancellable THEN Finish(rec, "rejected")
              ELSE [rec EXCEPT !.pc = "saveOrder",
                               !.pay = IF findPayment(o) = 0 THEN <<>>
                                       ELSE <<payments[findPayment(o)]>>]]
        /\ UNCHANGED <<variants, products, addresses, reviews, carts, orders, payments, hist>>

\* the order as the handler has changed it in memory before order.save
CancelledOrder(order) ==
    [order EXCEPT !.status = "cancelled", !.payment.status = "cancelled"]

\* router.post("/:id/cancel"): one await of the handler after the order was read
CancelOrderStep(r) ==
    LET rec == req[r]
        o == rec.oid
        order == rec.order[1]
        item == order.items[rec.i + 1]
        last == rec.i + 1 = Len(order.items)
        pi == findPayment(o)
    IN
    /\ rec.op = "cancel"
    /\ Running(r)
    /\ \E fail \in BOOLEAN :
        CASE rec.pc = "saveOrder" ->
                /\ req' = [req EXCEPT ![r] =
                      IF fail \/ ~OrderValid(CancelledOrder(order))
                              \/ orders[o] # order \/ OrderLocked(o)
                      THEN Abort(rec, fail)
                      ELSE [rec EXCEPT !.txOrder = <<OrderPreSave(CancelledOrder(order))>>,
                                       !.pc = "updatePayment"]]
                /\ UNCHANGED <<variants, orders, payments, hist>>
          [] rec.pc = "updatePayment" ->
                /\ req' = [req EXCEPT ![r] =
                      IF fail \/ (pi # 0 /\ (<<payments[pi]>> # rec.pay \/ PaymentLocked(o)))
                      THEN Abort(rec, fail)
                      ELSE [rec EXCEPT !.txPay = IF pi = 0 THEN <<>>
                                                 ELSE <<[payments[pi] EXCEPT !.status = "cancelled"]>>,
                                       !.pc = "restoreStock"]]
                /\ UNCHANGED <<variants, orders, payments, hist>>
          [] rec.pc = "restoreStock" ->
                IF fail
                THEN /\ req' = [req EXCEPT ![r] = Abort(rec, fail)]
                     /\ hist' = Leak(rec)
                     /\ UNCHANGED <<variants, orders, payments>>
                ELSE /\ variants' = restoreStock(item)
                     /\ req' = [req EXCEPT ![r] =
                           [rec EXCEPT !.i = @ + 1,
                                       !.pc = IF last THEN "commit" ELSE "restoreStock"]]
                     /\ hist' = [hist EXCEPT !.restored[o][rec.i + 1] = @ + 1]
                     /\ UNCHANGED <<orders, payments>>
          [] rec.pc = "commit" ->
                IF fail
                THEN /\ req' = [req EXCEPT ![r] = Abort(rec, fail)]
                     /\ hist' = Leak(rec)
                     /\ UNCHANGED <<variants, orders, payments>>
                ELSE /\ orders' = [orders EXCEPT ![o] = rec.txOrder[1]]
                     /\ payments' = IF rec.txPay = <<>> THEN payments
                                    ELSE [payments EXCEPT ![pi] = rec.txPay[1]]
                     /\ req' = [req EXCEPT ![r] = Finish(rec, "ok")]
                     /\ hist' = [hist EXCEPT !.cancelled[o] = TRUE]
                     /\ UNCHANGED variants
    /\ UNCHANGED <<products, addresses, reviews, carts>>

(* ------------------------------ updateStatus --------------------------- *)

validStatuses ==
    {"placed", "confirmed", "packed", "out_for_delivery", "delivered", "cancelled", "returned"}

\* the refusal without "returned"
TerminalStatusesWithoutReturned == {"delivered", "cancelled"}

\* the statuses router.put("/:id/status") refuses to leave
TerminalStatuses == {"delivered", "cancelled", "returned"}

\* router.put("/:id/status"): the check of the body, Order.findById and the check on it
UpdateStatusBegin(r, o, status) ==
    LET order == orders[o]
        rec == [IdleReq EXCEPT !.op = "status", !.oid = o, !.arg = status,
                               !.order = <<order>>]
    IN  /\ Free(r)
        /\ o \in 1..Len(orders)
        /\ req' = [req EXCEPT ![r] =
              IF status \notin validStatuses THEN Finish(rec, "rejected")
              ELSE IF order.status \in TerminalStatuses THEN Finish(rec, "rejected")
              ELSE [rec EXCEPT !.pc = IF status = "delivered" /\ order.payment.isCod
                                      THEN "updatePayment" ELSE "updateOrder"]]
        /\ UNCHANGED <<variants, products, addresses, reviews, carts, orders, payments, hist>>

\* an update that writes the status alone
ApplyStatusOnly(doc, status, cod) == [doc EXCEPT !.status = status]

\* updateData of router.put("/:id/status"), applied by Order.findByIdAndUpdate
ApplyUpdateData(doc, status, cod) ==
    IF status = "delivered" /\ cod
    THEN [doc EXCEPT !.status = status, !.payment.status = "paid",
                     !.payment.codCollected = TRUE]
    ELSE [doc EXCEPT !.status = status]

\* router.put("/:id/status"): one await of the handler after the order was read
UpdateStatusStep(r) ==
    LET rec == req[r]
        o == rec.oid
        order == rec.order[1]
        pi == findPayment(o)
    IN
    /\ rec.op = "status"
    /\ Running(r)
    /\ \E fail \in BOOLEAN :
        CASE rec.pc = "updatePayment" ->
                /\ ~PaymentLocked(o)
                /\ IF fail
                   THEN /\ req' = [req EXCEPT ![r] = Abort(rec, fail)]
                        /\ UNCHANGED payments
                   ELSE /\ payments' = IF pi = 0 THEN payments
                                       ELSE [payments EXCEPT ![pi].status = "success",
                                                             ![pi].codCollected = TRUE]
                        /\ req' = [req EXCEPT ![r].pc = "updateOrder"]
                /\ UNCHANGED orders
          [] rec.pc = "updateOrder" ->
                /\ ~OrderLocked(o)
                /\ IF fail \/ ~OrderValid(ApplyUpdateData(orders[o], rec.arg, order.payment.isCod))
                   THEN /\ req' = [req EXCEPT ![r] = Abort(rec, fail)]
                        /\ UNCHANGED orders
                   ELSE /\ orders' = [orders EXCEPT ![o] =
                                        ApplyUpdateData(@, rec.arg, order.payment.isCod)]
                        /\ req' = [req EXCEPT ![r] = Finish(rec, "ok")]
                /\ UNCHANGED payments
    /\ UNCHANGED <<variants, products, addresses, reviews, carts, hist>>

(* ------------------------------ verifyPayment -------------------------- *)

\* router.post("/:id/verify-payment"): Order.findById and the COD check
VerifyPaymentBegin(r, o) ==
    LET order == orders[o]
        rec == [IdleReq EXCEPT !.op = "verify", !.oid = o, !.order = <<order>>]
    IN  /\ Free(r)
        /\ o \in 1..Len(orders)
        /\ req' = [req EXCEPT ![r] =
              IF order.payment.isCod THEN Finish(rec, "rejected")
              ELSE [rec EXCEPT !.pc = "saveOrder"]]
        /\ UNCHANGED <<variants, products, addresses, reviews, carts, orders, payments, hist>>

\* the order as router.post("/:id/verify-payment") has changed it in memory
VerifiedOrder(order) ==
    [order EXCEPT !.payment.status = "paid",
                  !.status = IF order.status = "placed" THEN "confirmed" ELSE order.status]

\* order.save() without a session: only the paths the handler modified are written
SaveModified(doc, read, changed) ==
    LET saved == OrderPreSave(changed)
    IN  [doc EXCEPT !.status = IF saved.status # read.status THEN saved.status ELSE @,
                    !.payment.status =
                        IF saved.payment.status # read.payment.status
                        THEN saved.payment.status ELSE @]

\* router.post("/:id/verify-payment"): one await of the handler after the order was read
VerifyPaymentStep(r) ==
    LET rec == req[r]
        o == rec.oid
        order == rec.order[1]
        pi == findPayment(o)
    IN
    /\ rec.op = "verify"
    /\ Running(r)
    /\ \E fail \in BOOLEAN :
        CASE rec.pc = "saveOrder" ->
                /\ ~OrderLocked(o)
                /\ IF fail \/ ~OrderValid(VerifiedOrder(order))
                   THEN /\ req' = [req EXCEPT ![r] = Abort(rec, fail)]
                        /\ UNCHANGED orders
                   ELSE /\ orders' = [orders EXCEPT ![o] =
                                        SaveModified(@, order, VerifiedOrder(order))]
                        /\ req' = [req EXCEPT ![r].pc = "updatePayment"]
                /\ UNCHANGED payments
          [] rec.pc = "updatePayment" ->
                /\ ~PaymentLocked(o)
                /\ IF fail
                   THEN /\ req' = [req EXCEPT ![r] = Abort(rec, fail)]
                        /\ UNCHANGED payments
                   ELSE /\ payments' = IF pi = 0 THEN payments
                                       ELSE [payments EXCEPT ![pi].status = "success"]
                        /\ req' = [req EXCEPT ![r] = Finish(rec, "ok")]
                /\ UNCHANGED orders
    /\ UNCHANGED <<variants, products, addresses, reviews, carts, hist>>

\* the response has gone out: the slot is free again
Respond(r) ==
    /\ req[r].pc = "done"
    /\ req' = [req EXCEPT ![r] = IdleReq]
    /\ UNCHANGED <<variants, products, addresses, reviews, carts, orders, payments, hist>>


(* ------------------------- placeOrder: order number -------------------- *)

\* the numbers generateOrderNumber can build from the clock and Math.random:
\* "ORD" + 8 digits of Date.now() + 3 random digits
OrderNumbers == {"ORD1", "ORD2"}

\* Order.findOne({ orderNumber }): an order with that number is stored
existing(n) == \E o \in 1..Len(orders) : orders[o].orderNumber = n

\* an index on orderNumber that is not unique: no insert is refused
DuplicateKeyNotUnique(n) == FALSE

\* the unique index on OrderSchema.orderNumber: an insert of a number already
\* stored is refused with a duplicate-key error
DuplicateKey(n) == \E o \in 1..Len(orders) : orders[o].orderNumber = n

\* router.post("/") up to its call of generateOrderNumber, for a user whose cart
\* passed the stock check
GenerateOrderNumberCall(r, u, paymentMethod) ==
    LET found == findActiveCart(u)
    IN  /\ Free(r)
        /\ found # 0
        /\ req' = [req EXCEPT ![r] =
                      [IdleReq EXCEPT !.op = "number", !.pc = "generate", !.user = u,
                                      !.arg = paymentMethod, !.cid = found,
                                      !.cart = <<carts[found]>>]]
        /\ UNCHANGED <<variants, products, carts, orders, payments, addresses, reviews, hist>>

\* generateOrderNumber: one attempt. A number that is taken makes the function
\* call itself again, which starts the attempt anew; there is no count of the
\* attempts
generateOrderNumber(r) ==
    /\ req[r].op = "number"
    /\ req[r].pc = "generate"
    /\ \E n \in OrderNumbers :
          req' = IF existing(n) THEN req
                 ELSE [req EXCEPT ![r].pc = "save", ![r].orderNumber = n]
    /\ UNCHANGED <<variants, products, carts, orders, payments, addresses, reviews, hist>>

\* new Order({ ..., orderNumber }) and order.save of router.post("/"), followed
\* here to the commit; the payment, stock and cart writes are PlaceOrderStep's
SaveNumberedOrder(r) ==
    LET rec == req[r]
    IN  /\ rec.op = "number"
        /\ rec.pc = "save"
        /\ IF DuplicateKey(rec.orderNumber)
           THEN /\ req' = [req EXCEPT ![r] =
                              [Finish(rec, "error") EXCEPT !.orderNumber = rec.orderNumber]]
                /\ UNCHANGED orders
           ELSE /\ Len(orders) < MaxOrders
                /\ orders' = Append(orders, [orderNumber |-> rec.orderNumber] @@ NewOrder(rec))
                /\ req' = [req EXCEPT ![r] =
                              [Finish(rec, "ok") EXCEPT !.orderNumber = rec.orderNumber,
                                                        !.oid = Len(orders) + 1]]
        /\ UNCHANGED <<variants, products, carts, payments, addresses, reviews, hist>>

(* ----------------------- products: the variant list -------------------- *)

\* the ids the store gives to variant subdocuments
VariantIds == {"v1", "v2", "v3", "v4"}

\* the ids in a variant list
ListIds(vs) == {vs[i].id : i \in 1..Len(vs)}

\* the positions of the variants marked as default
DefaultVariants(vs) == {i \in 1..Len(vs) : vs[i].isDefault}

\* product.variants.forEach((v) => { v.isDefault = false })
unsetVariantDefaults(vs) == [i \in 1..Len(vs) |-> [vs[i] EXCEPT !.isDefault = FALSE]]

\* validateVariants: at least one variant, at most one default, and the first
\* becomes the default when none is marked
validateVariants(vs) ==
    IF Cardinality(DefaultVariants(vs)) = 0
    THEN [vs EXCEPT ![1].isDefault = TRUE]
    ELSE vs

\* router.post("/") of the products: the variants of the body, checked by
\* validateVariants, are stored with the new product
CreateProduct(p, flags) ==
    LET ids == CHOOSE f \in [1..Len(flags) -> VariantIds] :
                   \A i, j \in 1..Len(flags) : f[i] = f[j] => i = j
        vs == [i \in 1..Len(flags) |-> [id |-> ids[i], isDefault |-> flags[i]]]
    IN  /\ ~products[p].created
        /\ Len(vs) > 0
        /\ Cardinality(DefaultVariants(vs)) <= 1
        /\ products' = [products EXCEPT ![p].created = TRUE, ![p].variants = validateVariants(vs)]
        /\ UNCHANGED <<variants, carts, orders, payments, addresses, reviews, req, hist>>

\* router.post("/:id/variants")
AddVariant(p, id, isDefault) ==
    LET vs == products[p].variants
        others == IF isDefault THEN unsetVariantDefaults(vs) ELSE vs
    IN  /\ products[p].created
        /\ id \notin ListIds(vs)
        /\ Len(vs) < MaxVariants
        /\ products' = [products EXCEPT
                           ![p].variants = Append(others, [id |-> id, isDefault |-> isDefault])]
        /\ UNCHANGED <<variants, carts, orders, payments, addresses, reviews, req, hist>>

\* router.put("/:id/variants/:variantId") with isDefault "true", "false" or
\* "undefined" (not in the body)
UpdateVariantDefault(p, i, isDefault) ==
    LET vs == products[p].variants
    IN  /\ products[p].created
        /\ i \in 1..Len(vs)
        /\ products' = [products EXCEPT ![p].variants =
              IF isDefault = "true"
              THEN [unsetVariantDefaults(vs) EXCEPT ![i].isDefault = TRUE]
              ELSE IF isDefault = "false"
              THEN [vs EXCEPT ![i].isDefault = FALSE]
              ELSE vs]
        /\ UNCHANGED <<variants, carts, orders, payments, addresses, reviews, req, hist>>

\* router.delete("/:id/variants/:variantId")
DeleteVariant(p, i) ==
    LET vs == products[p].variants
        wasDefault == vs[i].isDefault
        pulled == RemoveAt(vs, i)
    IN  /\ products[p].created
        /\ i \in 1..Len(vs)
        /\ Len(vs) # 1
        /\ products' = [products EXCEPT ![p].variants =
              IF wasDefault /\ Len(pulled) > 0
              THEN [pulled EXCEPT ![1].isDefault = TRUE]
              ELSE pulled]
        /\ UNCHANGED <<variants, carts, orders, payments, addresses, reviews, req, hist>>

(* ------------------------------- reviews ------------------------------- *)

\* Review.find({ product, isActive: true })
ActiveReviews(rs, p) ==
    {i \in 1..Len(rs) : ~rs[i].deleted /\ rs[i].product = p /\ rs[i].isActive}

\* the sum of the ratings of a set of reviews
RECURSIVE SumRatings(_, _)
SumRatings(rs, ids) ==
    IF ids = {} THEN 0
    ELSE LET i == CHOOSE x \in ids : TRUE
         IN  rs[i].rating + SumRatings(rs, ids \ {i})

\* what updateProductRating computes from the reviews it has read: the count,
\* and Math.round(averageRating * 10) / 10, kept here in tenths
ProductRating(rs, p) ==
    LET ids == ActiveReviews(rs, p)
        totalReviews == Cardinality(ids)
    IN  [rating |-> IF totalReviews > 0
                    THEN MathRound(<<SumRatings(rs, ids) * 10, totalReviews>>)
                    ELSE 0,
         reviewsCount |-> totalReviews]

\* the products of the listed reviews that are stored, in a fixed order:
\* Review.find({ _id: { $in } }).distinct("product")
RECURSIVE SetToSeq(_)
SetToSeq(ps) ==
    IF ps = {} THEN <<>>
    ELSE LET x == CHOOSE y \in ps : \A z \in ps : y = z \/ (y = "p1" /\ z = "p2")
         IN  <<x>> \o SetToSeq(ps \ {x})

\* a review handler after its write to the Review collection: the products in
\* todo have their rating recomputed, one after the other
ReviewWritten(op, todo) ==
    IF todo = <<>>
    THEN [IdleReq EXCEPT !.op = op, !.pc = "done", !.result = "ok"]
    ELSE [IdleReq EXCEPT !.op = op, !.pc = "find", !.issues = todo]

\* a review handler that answers 4xx
ReviewRejected(op) == [IdleReq EXCEPT !.op = op, !.pc = "done", !.result = "rejected"]

\* router.post("/") of the reviews, up to review.save()
CreateReview(r, u, p, rating) ==
    LET existingReview == \E i \in 1..Len(reviews) :
            ~reviews[i].deleted /\ reviews[i].user = u /\ reviews[i].product = p
    IN  /\ Free(r)
        /\ IF rating < 1 \/ rating > 5 \/ existingReview
           THEN /\ req' = [req EXCEPT ![r] = ReviewRejected("createReview")]
                /\ UNCHANGED reviews
           ELSE /\ Len(reviews) < MaxReviews
                /\ reviews' = Append(reviews, [user |-> u, product |-> p, rating |-> rating,
                                               isActive |-> TRUE, deleted |-> FALSE])
                /\ req' = [req EXCEPT ![r] = ReviewWritten("createReview", <<p>>)]
        /\ UNCHANGED <<variants, products, carts, orders, payments, addresses, hist>>

\* router.put("/:id") of the reviews with a rating in the body, up to
\* Review.findByIdAndUpdate
UpdateReviewRating(r, id, rating) ==
    /\ Free(r)
    /\ id \in 1..Len(reviews)
    /\ IF reviews[id].deleted \/ rating < 1 \/ rating > 5
       THEN /\ req' = [req EXCEPT ![r] = ReviewRejected("updateReview")]
            /\ UNCHANGED reviews
       ELSE /\ reviews' = [reviews EXCEPT ![id].rating = rating]
            /\ req' = [req EXCEPT ![r] = ReviewWritten("updateReview", <<reviews[id].product>>)]
    /\ UNCHANGED <<variants, products, carts, orders, payments, addresses, hist>>

\* router.delete("/:id") of the reviews, up to review.save()
SoftDeleteReview(r, id) ==
    /\ Free(r)
    /\ id \in 1..Len(reviews)
    /\ IF reviews[id].deleted
       THEN /\ req' = [req EXCEPT ![r] = ReviewRejected("softDeleteReview")]
            /\ UNCHANGED reviews
       ELSE /\ reviews' = [reviews EXCEPT ![id].isActive = FALSE]
            /\ req' = [req EXCEPT ![r] =
                          ReviewWritten("softDeleteReview", <<reviews[id].product>>)]
    /\ UNCHANGED <<variants, products, carts, orders, payments, addresses, hist>>

\* router.delete("/:id/permanent"), up to Review.findByIdAndDelete
PermanentDeleteReview(r, id) ==
    /\ Free(r)
    /\ id \in 1..Len(reviews)
    /\ IF reviews[id].deleted
       THEN /\ req' = [req EXCEPT ![r] = ReviewRejected("permanentDeleteReview")]
            /\ UNCHANGED reviews
       ELSE /\ reviews' = [reviews EXCEPT ![id].deleted = TRUE]
            /\ req' = [req EXCEPT ![r] =
                          ReviewWritten("permanentDeleteReview", <<reviews[id].product>>)]
    /\ UNCHANGED <<variants, products, carts, orders, payments, addresses, hist>>

\* router.patch("/:id/toggle-active"), up to review.save()
ToggleActiveReview(r, id) ==
    /\ Free(r)
    /\ id \in 1..Len(reviews)
    /\ IF reviews[id].deleted
       THEN /\ req' = [req EXCEPT ![r] = ReviewRejected("toggleReview")]
            /\ UNCHANGED reviews
       ELSE /\ reviews' = [reviews EXCEPT ![id].isActive = ~@]
            /\ req' = [req EXCEPT ![r] = ReviewWritten("toggleReview", <<reviews[id].product>>)]
    /\ UNCHANGED <<variants, products, carts, orders, payments, addresses, hist>>

\* router.post("/bulk/activate") and router.post("/bulk/deactivate"), up to the
\* list of the products affected
BulkSetActive(r, reviewIds, isActive) ==
    LET stored == {i \in reviewIds : i \in 1..Len(reviews) /\ ~reviews[i].deleted}
    IN  /\ Free(r)
        /\ IF reviewIds = {}
           THEN /\ req' = [req EXCEPT ![r] = ReviewRejected("bulkReview")]
                /\ UNCHANGED reviews
           ELSE /\ reviews' = [i \in 1..Len(reviews) |->
                                  IF i \in stored THEN [reviews[i] EXCEPT !.isActive = isActive]
                                  ELSE reviews[i]]
                /\ req' = [req EXCEPT ![r] =
                      ReviewWritten("bulkReview", SetToSeq({reviews[i].product : i \in stored}))]
        /\ UNCHANGED <<variants, products, carts, orders, payments, addresses, hist>>

\* updateProductRating, one await at a time: Review.find, then
\* Product.findByIdAndUpdate with what was computed from the reviews read
updateProductRating(r) ==
    LET rec == req[r]
        p == Head(rec.issues)
    IN  /\ rec.op \in {"createReview", "updateReview", "softDeleteReview",
                      "permanentDeleteReview", "toggleReview", "bulkReview"}
        /\ Running(r)
        /\ CASE rec.pc = "find" ->
                  /\ req' = [req EXCEPT ![r].pc = "update",
                                        ![r].pay = <<ProductRating(reviews, p)>>]
                  /\ UNCHANGED products
             [] rec.pc = "update" ->
                  /\ products' = [products EXCEPT ![p].rating = rec.pay[1].rating,
                                                  ![p].reviewsCount = rec.pay[1].reviewsCount]
                  /\ req' = [req EXCEPT ![r] = ReviewWritten(rec.op, Tail(rec.issues))]
        /\ UNCHANGED <<variants, carts, orders, payments, addresses, reviews, hist>>

(* ------------------------------ addresses ------------------------------ *)

\* the documents Address.find({ user }) matches
UserAddresses(as, u) == {a \in 1..Len(as) : as[a].user = u /\ ~as[a].deleted}

\* Address.countDocuments({ user })
countDocuments(u) == Cardinality(UserAddresses(addresses, u))

\* the add handler's quota check one address late
QuotaReachedAtFour(count) == count >= 4

\* the add handler's quota check: count >= 3
QuotaReached(count) == count >= 3

\* Address.updateMany({ user, _id: { $ne: except } }, { $set: { isDefault: false } });
\* except = 0 leaves no document out
unsetDefaults(as, u, except) ==
    [a \in 1..Len(as) |-> IF a \in UserAddresses(as, u) /\ a # except
                          THEN [as[a] EXCEPT !.isDefault = FALSE]
                          ELSE as[a]]

\* Address.findOne({ user }): the first such document, 0 when none
findOneAddress(u) ==
    IF UserAddresses(addresses, u) = {} THEN 0
    ELSE CHOOSE a \in UserAddresses(addresses, u) :
             \A b \in UserAddresses(addresses, u) : a <= b

\* the document Address.create is given by the add handler. The handler passes
\* user, name, addressLine, city, state, pincode and isDefault; the schema has
\* no path addressLine, so that value is dropped, and the paths phone and
\* addressLine1 stay unset
NewAddress(u, isDefault) ==
    [user |-> u, phone |-> "unset", addressLine1 |-> "unset", isDefault |-> isDefault,
     deleted |-> FALSE]

\* AddressSchema's validators: phone and addressLine1 are required (user, city,
\* state and pincode are too; the add handler has checked those)
AddressValid(a) == a.phone # "unset" /\ a.addressLine1 # "unset"

\* the response of an address handler: the outcome and its message
AddressResponse(rec, res, message) ==
    [IdleReq EXCEPT !.op = rec.op, !.pc = "done", !.user = rec.user,
                    !.issues = message, !.result = res]

\* document.save() of a document read earlier: only a changed path is written
SaveAddress(as, aid, read, isDefault) ==
    IF isDefault = read.isDefault THEN as
    ELSE [as EXCEPT ![aid].isDefault = isDefault]

\* router.post("/"): the check of the required fields of the body; isDefault
\* is "true" or "false"
AddAddressBegin(r, u, isDefault, complete) ==
    /\ Free(r)
    /\ req' = [req EXCEPT ![r] =
                  IF ~complete
                  THEN AddressResponse([IdleReq EXCEPT !.op = "addAddress", !.user = u],
                                       "rejected", <<"Please provide all required address fields">>)
                  ELSE [IdleReq EXCEPT !.op = "addAddress", !.pc = "count", !.user = u,
                                       !.arg = isDefault]]
    /\ UNCHANGED <<variants, products, carts, orders, payments, addresses, reviews, hist>>

\* the rest of router.post("/"), one await at a time
AddAddressStep(r) ==
    LET rec == req[r]
        u == rec.user
        isDefault == rec.arg = "true"
        count == countDocuments(u)
        address == NewAddress(u, isDefault \/ rec.i = 0)
    IN  /\ rec.op = "addAddress"
        /\ Running(r)
        /\ CASE rec.pc = "count" ->
                  /\ req' = [req EXCEPT ![r] =
                        IF QuotaReached(count)
                        THEN AddressResponse(rec, "rejected",
                                             <<"You can only add up to 3 addresses">>)
                        ELSE [rec EXCEPT !.i = count,
                                         !.pc = IF isDefault THEN "unset" ELSE "create"]]
                  /\ UNCHANGED addresses
             [] rec.pc = "unset" ->
                  /\ addresses' = unsetDefaults(addresses, u, 0)
                  /\ req' = [req EXCEPT ![r].pc = "create"]
             [] rec.pc = "create" ->
                  IF AddressValid(address)
                  THEN /\ addresses' = Append(addresses, address)
                       /\ req' = [req EXCEPT ![r] =
                             AddressResponse(rec, "ok", <<>>)]
                  ELSE /\ req' = [req EXCEPT ![r] =
                             AddressResponse(rec, "rejected", <<"Address validation failed">>)]
                       /\ UNCHANGED addresses
        /\ UNCHANGED <<variants, products, carts, orders, payments, reviews, hist>>

\* Address.findById at the head of the update, set-default and delete
\* handlers: 404 when the document is gone, else the handler holds it
FindAddress(op, id, arg) ==
    IF addresses[id].deleted
    THEN AddressResponse([IdleReq EXCEPT !.op = op, !.aid = id, !.arg = arg],
                         "rejected", <<"Address not found">>)
    ELSE [IdleReq EXCEPT !.op = op, !.pc = "found", !.user = addresses[id].user,
                         !.arg = arg, !.aid = id, !.address = addresses[id]]

\* router.put("/:id"); isDefault is "true", "false" or "undefined" (not in the body)
UpdateAddressBegin(r, id, isDefault) ==
    /\ Free(r)
    /\ req' = [req EXCEPT ![r] = FindAddress("updateAddress", id, isDefault)]
    /\ UNCHANGED <<variants, products, carts, orders, payments, addresses, reviews, hist>>

UpdateAddressStep(r) ==
    LET rec == req[r]
        address == rec.address
        isDefault == rec.arg
        changed == IF isDefault # "undefined" THEN isDefault = "true" ELSE address.isDefault
    IN  /\ rec.op = "updateAddress"
        /\ Running(r)
        /\ CASE rec.pc = "found" ->
                  IF isDefault = "true" /\ ~address.isDefault
                  THEN /\ addresses' = unsetDefaults(addresses, rec.user, rec.aid)
                       /\ req' = [req EXCEPT ![r].pc = "save"]
                  ELSE /\ req' = [req EXCEPT ![r].pc = "save"]
                       /\ UNCHANGED addresses
             [] rec.pc = "save" ->
                  IF addresses[rec.aid].deleted
                  THEN /\ req' = [req EXCEPT ![r] =
                             AddressResponse(rec, "rejected", <<"No document found">>)]
                       /\ UNCHANGED addresses
                  ELSE /\ addresses' = SaveAddress(addresses, rec.aid, address, changed)
                       /\ req' = [req EXCEPT ![r] = AddressResponse(rec, "ok", <<>>)]
        /\ UNCHANGED <<variants, products, carts, orders, payments, reviews, hist>>

\* router.put("/:id/default")
SetDefaultBegin(r, id) ==
    /\ Free(r)
    /\ req' = [req EXCEPT ![r] = FindAddress("setDefault", id, "none")]
    /\ UNCHANGED <<variants, products, carts, orders, payments, addresses, reviews, hist>>

SetDefaultStep(r) ==
    LET rec == req[r]
        address == rec.address
    IN  /\ rec.op = "setDefault"
        /\ Running(r)
        /\ CASE rec.pc = "found" ->
                  /\ addresses' = unsetDefaults(addresses, rec.user, 0)
                  /\ req' = [req EXCEPT ![r].pc = "save"]
             [] rec.pc = "save" ->
                  IF addresses[rec.aid].deleted
                  THEN /\ req' = [req EXCEPT ![r] =
                             AddressResponse(rec, "rejected", <<"No document found">>)]
                       /\ UNCHANGED addresses
                  ELSE /\ addresses' = SaveAddress(addresses, rec.aid, address, TRUE)
                       /\ req' = [req EXCEPT ![r] = AddressResponse(rec, "ok", <<>>)]
        /\ UNCHANGED <<variants, products, carts, orders, payments, reviews, hist>>

\* router.delete("/:id")
DeleteAddressBegin(r, id) ==
    /\ Free(r)
    /\ req' = [req EXCEPT ![r] = FindAddress("deleteAddress", id, "none")]
    /\ UNCHANGED <<variants, products, carts, orders, payments, addresses, reviews, hist>>

DeleteAddressStep(r) ==
    LET rec == req[r]
        wasDefault == rec.address.isDefault
        nextAddress == findOneAddress(rec.user)
    IN  /\ rec.op = "deleteAddress"
        /\ Running(r)
        /\ CASE rec.pc = "found" ->
                  \* address.deleteOne()
                  /\ addresses' = [addresses EXCEPT ![rec.aid].deleted = TRUE]
                  /\ req' = [req EXCEPT ![r] =
                        IF wasDefault THEN [rec EXCEPT !.pc = "findNext"]
                        ELSE AddressResponse(rec, "ok", <<>>)]
             [] rec.pc = "findNext" ->
                  /\ req' = [req EXCEPT ![r] =
                        IF nextAddress = 0 THEN AddressResponse(rec, "ok", <<>>)
                        ELSE [rec EXCEPT !.pc = "saveNext", !.i = nextAddress,
                                         !.address = addresses[nextAddress]]]
                  /\ UNCHANGED addresses
             [] rec.pc = "saveNext" ->
                  IF addresses[rec.i].deleted
                  THEN /\ req' = [req EXCEPT ![r] =
                             AddressResponse(rec, "error", <<"No document found">>)]
                       /\ UNCHANGED addresses
                  ELSE /\ addresses' = SaveAddress(addresses, rec.i, rec.address, TRUE)
                       /\ req' = [req EXCEPT ![r] = AddressResponse(rec, "ok", <<>>)]
        /\ UNCHANGED <<variants, products, carts, orders, payments, reviews, hist>>

(* ------------------------------ specification -------------------------- *)

StatusArgs == validStatuses \cup {"shipped"}
MethodArgs == {"cod", "upi", "netbanking"}

\* one user holds an active cart filled through add-to-cart
InitOrder ==
    /\ variants = InitVariants
    /\ products = [p \in Products |-> [isActive |-> TRUE]]
    /\ addresses = <<>>
    /\ carts = <<CartOf("u1", <<<<"v1", 1>>, <<"v2", 1>>>>)>>
    /\ orders = <<>>
    /\ payments = <<>>
    /\ reviews = <<>>
    /\ req = [r \in Reqs |-> IdleReq]
    /\ hist = [restored |-> <<>>, cancelled |-> <<>>, leaked |-> FALSE, edits |-> 0]

\* checkout: concurrent placeOrder and cancelOrder requests and admin stock edits
Next ==
    \/ \E v \in Variants, n \in 0..MaxStock : SetStock(v, n)
    \/ \E r \in Reqs, u \in Users, m \in {"cod", "netbanking"} : PlaceOrderBegin(r, u, m)
    \/ \E r \in Reqs : PlaceOrderStep(r)
    \/ \E r \in Reqs, o \in 1..MaxOrders, u \in Users \cup {"none"} : CancelOrderBegin(r, o, u)
    \/ \E r \in Reqs : CancelOrderStep(r)
    \/ \E r \in Reqs : Respond(r)

Spec == Init /\ [][Next]_vars

\* the life of one user's order: placement, status updates, payment verification
\* and cancellation, two requests at a time
NextOrder ==
    \/ \E r \in Reqs, m \in MethodArgs : PlaceOrderBegin(r, "u1", m)
    \/ \E r \in Reqs : PlaceOrderStep(r)
    \/ \E r \in Reqs, o \in 1..MaxOrders, u \in Users \cup {"none"} : CancelOrderBegin(r, o, u)
    \/ \E r \in Reqs : CancelOrderStep(r)
    \/ \E r \in Reqs, o \in 1..MaxOrders, st \in StatusArgs : UpdateStatusBegin(r, o, st)
    \/ \E r \in Reqs : UpdateStatusStep(r)
    \/ \E r \in Reqs, o \in 1..MaxOrders : VerifyPaymentBegin(r, o)
    \/ \E r \in Reqs : VerifyPaymentStep(r)
    \/ \E r \in Reqs : Respond(r)

SpecOrder == InitOrder /\ [][NextOrder]_vars

\* prices an admin sets: below and above the mrp of v1
PriceArgs == {8000, 13000}

\* the user whose cart requests are followed; a handler reads and writes only
\* the cart of the user it is called for
Shoppers == {"u1"}

\* the cart handlers, one request at a time, with the catalog edited in between
NextCart ==
    \/ \E u \in Shoppers, v \in Variants, q \in 0..MaxQty : AddItem(1, u, v, q)
    \/ \E u \in Shoppers, v \in Variants, q \in 0..MaxQty + 1 : UpdateQuantity(u, v, q)
    \/ \E u \in Shoppers, v \in Variants : RemoveItem(u, v)
    \/ \E u \in Shoppers : ClearCart(u)
    \/ \E u \in Shoppers : ValidateCart(1, u)
    \/ \E v \in Variants, price \in PriceArgs, a \in BOOLEAN : UpdateVariant(v, price, a)
    \/ \E v \in Variants, s \in 0..MaxStock : SetStock(v, s)
    \/ \E p \in Products : DeactivateProduct(p)
    \/ Respond(1)

SpecCart == InitEmpty /\ [][NextCart]_vars

\* the catalog as the admin has left it when the user checks out: the cart was
\* filled while both variants were on sale
InitCheckout ==
    /\ \E st \in [Variants -> 0..MaxStock], va \in [Variants -> BOOLEAN],
          pa \in [Products -> BOOLEAN] :
          /\ variants = [v \in Variants |->
                            [InitVariants[v] EXCEPT !.stock = st[v], !.isActive = va[v]]]
          /\ products = [p \in Products |-> [isActive |-> pa[p]]]
          /\ addresses = <<>>
    /\ carts = <<CartOf("u1", <<<<"v1", 1>>, <<"v2", 1>>>>)>>
    /\ orders = <<>>
    /\ payments = <<>>
    /\ reviews = <<>>
    /\ req = [r \in Reqs |-> IdleReq]
    /\ hist = [restored |-> <<>>, cancelled |-> <<>>, leaked |-> FALSE, edits |-> 0]

\* one user's checkout requests, with every payment method and one unknown
NextCheckout ==
    \/ \E r \in Reqs, m \in PaymentMethods \cup {"netbanking"} : PlaceOrderBegin(r, "u1", m)
    \/ \E r \in Reqs : PlaceOrderStep(r)
    \/ \E r \in Reqs : Respond(r)

SpecCheckout == InitCheckout /\ [][NextCheckout]_vars

\* line items a cart can hold: prices in paise, with and without discount and
\* tax, tax inclusive and exclusive, active and inactive
TotalsItems(v) ==
    [product : {productOf(v)}, variantId : {v}, unitPrice : {10000, 3333}, mrp : {12000},
     discount : {0, 10}, tax : [gstPercent : {0, 5}, inclusive : BOOLEAN],
     quantity : MaxQty..MaxQty + 1, subtotal : {0}, isActive : BOOLEAN]

\* a handler holds a cart of one or two line items and is about to recalculate
InitTotals ==
    /\ variants = InitVariants
    /\ products = [p \in Products |-> [isActive |-> TRUE]]
    /\ addresses = <<>>
    /\ carts = <<>>
    /\ orders = <<>>
    /\ payments = <<>>
    /\ reviews = <<>>
    /\ \E items \in {<<a>> : a \in TotalsItems("v1")}
                    \cup {<<a, b>> : a \in TotalsItems("v1"), b \in TotalsItems("v2")} :
          req = [r \in Reqs |->
                   IF r = 1
                   THEN [IdleReq EXCEPT !.op = "totals", !.pc = "calc",
                            !.cart = <<[user |-> "u1", items |-> items,
                                        totals |-> ZeroTotals, status |-> "active"]>>]
                   ELSE IdleReq]
    /\ hist = [restored |-> <<>>, cancelled |-> <<>>, leaked |-> FALSE, edits |-> 0]

\* const totals = calculateCartTotals(cart.items); Object.assign(cart, totals)
CalculateTotals(r) ==
    /\ req[r].op = "totals"
    /\ req[r].pc = "calc"
    /\ req' = [req EXCEPT ![r].cart = <<WithTotals(req[r].cart[1], req[r].cart[1].items)>>,
                          ![r].pc = "done", ![r].result = "ok"]
    /\ UNCHANGED <<variants, products, addresses, reviews, carts, orders, payments, hist>>

NextTotals ==
    \/ \E r \in Reqs : CalculateTotals(r)
    \/ \E r \in Reqs : Respond(r)

SpecTotals == InitTotals /\ [][NextTotals]_vars

(* add-to-cart requests of users who have no cart yet, running concurrently *)

NextAdd ==
    \/ \E r \in Reqs, u \in Users, v \in Variants, q \in 0..MaxQty : AddItemBegin(r, u, v, q)
    \/ \E r \in Reqs : AddItemStep(r)
    \/ \E r \in Reqs : Respond(r)

SpecAdd == InitEmpty /\ [][NextAdd]_vars

(* the address book: the stored addresses of a user, and the add, update,
   set-default and delete requests on them, two at a time *)

\* an address stored with every required path set
StoredAddress(u, isDefault) ==
    [user |-> u, phone |-> "set", addressLine1 |-> "set", isDefault |-> isDefault,
     deleted |-> FALSE]

\* the address book of u1 holds two or three addresses, one of them the
\* default; u2's is empty
InitAddress ==
    /\ variants = InitVariants
    /\ products = [p \in Products |-> [isActive |-> TRUE]]
    /\ carts = <<>>
    /\ orders = <<>>
    /\ payments = <<>>
    /\ reviews = <<>>
    /\ \E n \in 2..3 : \E d \in 1..n :
          addresses = [a \in 1..n |-> StoredAddress("u1", a = d)]
    /\ req = [r \in Reqs |-> IdleReq]
    /\ hist = [restored |-> <<>>, cancelled |-> <<>>, leaked |-> FALSE, edits |-> 0]

NextAddress ==
    \/ \E r \in Reqs, u \in Users, d \in {"true", "false"}, c \in BOOLEAN :
          AddAddressBegin(r, u, d, c)
    \/ \E r \in Reqs : AddAddressStep(r)
    \/ \E r \in Reqs, id \in 1..Len(addresses), d \in {"true", "false", "undefined"} :
          UpdateAddressBegin(r, id, d)
    \/ \E r \in Reqs : UpdateAddressStep(r)
    \/ \E r \in Reqs, id \in 1..Len(addresses) : SetDefaultBegin(r, id)
    \/ \E r \in Reqs : SetDefaultStep(r)
    \/ \E r \in Reqs, id \in 1..Len(addresses) : DeleteAddressBegin(r, id)
    \/ \E r \in Reqs : DeleteAddressStep(r)
    \/ \E r \in Reqs : Respond(r)

SpecAddress == InitAddress /\ [][NextAddress]_vars

(* the order numbers of concurrent checkouts *)

NextNumber ==
    \/ \E r \in Reqs, u \in Users, m \in PaymentMethods : GenerateOrderNumberCall(r, u, m)
    \/ \E r \in Reqs : generateOrderNumber(r)
    \/ \E r \in Reqs : SaveNumberedOrder(r)
    \/ \E r \in Reqs : Respond(r)

SpecNumber == Init /\ [][NextNumber]_vars

\* every call of generateOrderNumber gets to run its attempts
SpecNumberFair ==
    Init /\ [][NextNumber]_vars /\ \A r \in Reqs : WF_vars(generateOrderNumber(r))

(* the variant lists of the products, edited by an admin one request at a time *)

\* the variant lists a product is created with
NewVariantFlags == {<<FALSE>>, <<TRUE>>, <<FALSE, FALSE>>, <<FALSE, TRUE>>, <<TRUE, TRUE>>}

\* p1 is in the catalog with its one variant, p2 is not created yet
InitVariant ==
    /\ variants = InitVariants
    /\ products = [p \in Products |->
                      IF p = "p1"
                      THEN [isActive |-> TRUE, created |-> TRUE,
                            variants |-> <<[id |-> "v1", isDefault |-> TRUE]>>]
                      ELSE [isActive |-> TRUE, created |-> FALSE, variants |-> <<>>]]
    /\ addresses = <<>>
    /\ carts = <<>>
    /\ orders = <<>>
    /\ payments = <<>>
    /\ reviews = <<>>
    /\ req = [r \in Reqs |-> IdleReq]
    /\ hist = [restored |-> <<>>, cancelled |-> <<>>, leaked |-> FALSE, edits |-> 0]

NextVariant ==
    \/ \E p \in Products, flags \in NewVariantFlags : CreateProduct(p, flags)
    \/ \E p \in Products, id \in VariantIds, d \in BOOLEAN : AddVariant(p, id, d)
    \/ \E p \in Products, i \in 1..MaxVariants, d \in {"true", "false", "undefined"} :
          UpdateVariantDefault(p, i, d)
    \/ \E p \in Products, i \in 1..MaxVariants : DeleteVariant(p, i)

SpecVariant == InitVariant /\ [][NextVariant]_vars

(* the reviews of the products and the ratings kept on the products *)

\* the ratings reviewers give
RatingArgs == {1, 4}

\* the users who write reviews
Reviewers == {"u1"}

InitReview ==
    /\ variants = InitVariants
    /\ products = [p \in Products |-> [isActive |-> TRUE, rating |-> 0, reviewsCount |-> 0]]
    /\ addresses = <<>>
    /\ carts = <<>>
    /\ orders = <<>>
    /\ payments = <<>>
    /\ reviews = <<>>
    /\ req = [r \in Reqs |-> IdleReq]
    /\ hist = [restored |-> <<>>, cancelled |-> <<>>, leaked |-> FALSE, edits |-> 0]

NextReview ==
    \/ \E r \in Reqs, u \in Reviewers, p \in Products, x \in RatingArgs \cup {0} :
          CreateReview(r, u, p, x)
    \/ \E r \in Reqs, id \in 1..MaxReviews, x \in RatingArgs : UpdateReviewRating(r, id, x)
    \/ \E r \in Reqs, id \in 1..MaxReviews : SoftDeleteReview(r, id)
    \/ \E r \in Reqs, id \in 1..MaxReviews : PermanentDeleteReview(r, id)
    \/ \E r \in Reqs, id \in 1..MaxReviews : ToggleActiveReview(r, id)
    \/ \E r \in Reqs, ids \in SUBSET (1..MaxReviews), a \in BOOLEAN : BulkSetActive(r, ids, a)
    \/ \E r \in Reqs : updateProductRating(r)
    \/ \E r \in Reqs : Respond(r)

SpecReview == InitReview /\ [][NextReview]_vars

(* ------------------------------ properties ----------------------------- *)

PlaceDone(r) == req[r].op = "place" /\ req[r].pc = "done"
CancelDone(r) == req[r].op = "cancel" /\ req[r].pc = "done"

\* the quantity of variant v among the items
QtyOf(items, v) ==
    SumSeq([i \in 1..Len(items) |-> IF items[i].variantId = v THEN items[i].quantity ELSE 0])

\* C1: in every reachable state, under any interleaving of placeOrder, cancelOrder
\* and admin stock edits, every variant's stock is >= 0.
C1_StockNeverNegative == \A v \in Variants : variants[v].stock >= 0

\* C2: two placeOrder requests on different carts, each ordering one unit of v1,
\* whose stock is 1 and is written by nothing else (no other order, no admin edit,
\* no decrement left by a failed request, no store failure): exactly one succeeds
\* and the other is rejected with a stock issue.
C2_ExactlyOneSucceeds ==
    \A r1, r2 \in Reqs :
        ( /\ r1 # r2
          /\ PlaceDone(r1) /\ PlaceDone(r2)
          /\ req[r1].cid # 0 /\ req[r2].cid # 0 /\ req[r1].cid # req[r2].cid
          /\ QtyOf(carts[req[r1].cid].items, "v1") = 1
          /\ QtyOf(carts[req[r2].cid].items, "v1") = 1
          /\ InitVariants["v1"].stock = 1
          /\ \A o \in 1..Len(orders) : o \in {req[r1].oid, req[r2].oid}
          /\ hist.edits = 0 /\ ~hist.leaked
          /\ ~req[r1].fault /\ ~req[r2].fault )
        => \/ (req[r1].result = "ok" /\ req[r2].result = "rejected" /\ req[r2].issues # <<>>)
           \/ (req[r2].result = "ok" /\ req[r1].result = "rejected" /\ req[r1].issues # <<>>)

\* C3: a placeOrder that failed after the stock validation has left no stock
\* decrement behind, and its cart is still active unless another request's order
\* converted it.  (Its Order and Payment exist only in its transaction.)
C3_FailedPlaceOrderLeavesNothing ==
    \A r \in Reqs :
        (PlaceDone(r) /\ req[r].result = "error")
        => /\ req[r].i = 0
           /\ \/ carts[req[r].cid].status = "active"
              \/ \E o \in 1..Len(orders) : orders[o].cart = req[r].cid

\* nothing but the order's own placement and cancellation writes stock
Quiet(r) ==
    /\ hist.edits = 0
    /\ ~hist.leaked
    /\ \A x \in Reqs : x # r => ~(Running(x) /\ req[x].op \in {"place", "cancel"})

\* C4: with nothing else writing the ordered variants' stock, a successful
\* placeOrder has lowered each variant's stock by the ordered quantity, and a
\* cancelOrder of the order while it is placed, confirmed or packed, by its owner
\* and with the store working, succeeds and returns the stock to its value before
\* the placement.
C4_PlaceThenCancelRestoresStock ==
    \A r \in Reqs :
        /\ (PlaceDone(r) /\ req[r].result = "ok" /\ Quiet(r) /\ Len(orders) = 1)
           => \A v \in Variants :
                 variants[v].stock = InitVariants[v].stock - QtyOf(orders[req[r].oid].items, v)
        /\ ( /\ CancelDone(r) /\ req[r].arg \in {"placed", "confirmed", "packed"}
             /\ req[r].result # "rejected" /\ ~req[r].fault
             /\ Quiet(r) /\ Len(orders) = 1 )
           => /\ req[r].result = "ok"
              /\ \A v \in Variants : variants[v].stock = InitVariants[v].stock

PaymentCancelled(o) == findPayment(o) # 0 /\ payments[findPayment(o)].status = "cancelled"
RestoredTimes(o, n) == \A k \in 1..Len(hist.restored[o]) : hist.restored[o][k] = n
CancelRunning(o) == \E r \in Reqs : Running(r) /\ req[r].op = "cancel" /\ req[r].oid = o

OrderEdges ==
    {<<"placed", "confirmed">>, <<"confirmed", "packed">>, <<"packed", "out_for_delivery">>,
     <<"out_for_delivery", "delivered">>, <<"placed", "cancelled">>, <<"confirmed", "cancelled">>,
     <<"packed", "cancelled">>, <<"delivered", "returned">>}

\* C7: every change of an order's status follows an edge of
\* placed -> confirmed -> packed -> out_for_delivery -> delivered,
\* placed|confirmed|packed -> cancelled, delivered -> returned.
C7_StatusFollowsStateMachine ==
    [][\A o \in 1..Len(orders) :
          orders'[o].status # orders[o].status
          => <<orders[o].status, orders'[o].status>> \in OrderEdges]_vars

\* C8: an updateStatus call on an order whose status is delivered, cancelled or
\* returned is rejected at once and changes neither the order nor its Payment.
C8_TerminalOrderRejectsUpdate ==
    [][\A r \in Reqs :
          ( /\ req[r].pc = "idle" /\ req'[r].op = "status"
            /\ orders[req'[r].oid].status \in {"delivered", "cancelled", "returned"} )
          => /\ req'[r].pc = "done" /\ req'[r].result = "rejected"
             /\ orders' = orders /\ payments' = payments]_vars

\* C8 witness: an updateStatus call on a terminal order has been rejected
C8_Witness ==
    \E r \in Reqs :
        /\ req[r].op = "status" /\ req[r].pc = "done" /\ req[r].result = "rejected"
        /\ orders[req[r].oid].status \in {"delivered", "cancelled", "returned"}

\* C9: a cancelOrder call on an order whose status is delivered, cancelled,
\* returned or out_for_delivery is rejected at once and changes neither the
\* order, nor its Payment, nor any variant's stock.
C9_UncancellableOrderRejectsCancel ==
    [][\A r \in Reqs :
          ( /\ req[r].pc = "idle" /\ req'[r].op = "cancel"
            /\ orders[req'[r].oid].status
                  \in {"delivered", "cancelled", "returned", "out_for_delivery"} )
          => /\ req'[r].pc = "done" /\ req'[r].result = "rejected"
             /\ orders' = orders /\ payments' = payments /\ variants' = variants]_vars

\* C9 witness: a cancelOrder call on such an order has been rejected
C9_Witness ==
    \E r \in Reqs :
        /\ CancelDone(r) /\ req[r].result = "rejected"
        /\ req[r].arg \in {"delivered", "cancelled", "returned", "out_for_delivery"}
        /\ orders[req[r].oid].status = req[r].arg

PaymentEdges ==
    {<<"initiated", "pending">>, <<"pending", "success">>,
     <<"initiated", "failed">>, <<"pending", "failed">>,
     <<"initiated", "cancelled">>, <<"pending", "cancelled">>,
     <<"success", "refunded">>, <<"success", "partial_refund">>}

C6_TotalsMatchItems ==
    \A c \in 1..Len(carts) :
        carts[c].status = "active" => carts[c].totals = calculateCartTotals(carts[c].items)

\* C6 witness: an active cart of two lines, one of them repriced by validate and
\* one of them with its quantity raised
C6_Witness ==
    \E c \in 1..Len(carts) :
        /\ carts[c].status = "active"
        /\ Len(carts[c].items) = 2
        /\ \E i \in 1..2 : carts[c].items[i].unitPrice
                              # InitVariants[carts[c].items[i].variantId].price
        /\ \E i \in 1..2 : carts[c].items[i].quantity > 1
        /\ carts[c].totals.totalQuantity > 2

\* no request is working on order o
OrderQuiet(o) == \A r \in Reqs : ~(Running(r) /\ req[r].oid = o)

\* C11: whenever no request is working on an order, its payment sub-document is
\* paid exactly when the linked Payment is success, and records the
\* cancellation exactly when the linked Payment is cancelled.
C11_OrderPaymentInSync ==
    \A o \in 1..Len(orders) :
        (OrderQuiet(o) /\ findPayment(o) # 0)
        => /\ orders[o].payment.status = "paid"
                <=> payments[findPayment(o)].status = "success"
           /\ orders[o].payment.status = "cancelled"
                <=> payments[findPayment(o)].status = "cancelled"

\* C12: when an updateStatus call moves an order whose payment.isCod is true to
\* delivered, the linked Payment is success with codCollected = true and the
\* order's payment sub-document is paid with codCollected = true.
C12_CodDeliveredMarksPaid ==
    [][\A r \in Reqs :
          ( /\ req[r].op = "status" /\ Running(r) /\ req[r].arg = "delivered"
            /\ req'[r].pc = "done" /\ req'[r].result = "ok"
            /\ orders[req[r].oid].payment.isCod )
          => /\ orders'[req[r].oid].status = "delivered"
             /\ orders'[req[r].oid].payment.status = "paid"
             /\ orders'[req[r].oid].payment.codCollected
             /\ payments'[findPayment(req[r].oid)].status = "success"
             /\ payments'[findPayment(req[r].oid)].codCollected]_vars

\* C12 witness: a delivered COD order, paid and collected, with its Payment a
\* collected success
C12_Witness ==
    \E o \in 1..Len(orders) :
        /\ orders[o].status = "delivered" /\ orders[o].payment.isCod
        /\ orders[o].payment.status = "paid" /\ orders[o].payment.codCollected
        /\ payments[findPayment(o)].status = "success"
        /\ payments[findPayment(o)].codCollected

\* C13: a successful placeOrder creates exactly one Payment linked to the new
\* order, with isCod = true and status pending when the method is cod, and with
\* isCod = false and status initiated when the method is upi, card or wallet.
C13_OnePaymentPerOrder ==
    [][\A r \in Reqs :
          ( /\ req[r].op = "place" /\ Running(r)
            /\ req'[r].pc = "done" /\ req'[r].result = "ok" )
          => /\ Len(orders') = Len(orders) + 1
             /\ req'[r].oid = Len(orders')
             /\ orders'[Len(orders')].payment.method = req[r].arg
             /\ Len(payments') = Len(payments) + 1
             /\ Cardinality({p \in 1..Len(payments') : payments'[p].order = Len(orders')}) = 1
             /\ LET payment == payments'[Len(payments')]
                IN  /\ payment.order = Len(orders')
                    /\ payment.method = req[r].arg
                    /\ req[r].arg = "cod" => payment.isCod /\ payment.status = "pending"
                    /\ req[r].arg \in {"upi", "card", "wallet"}
                          => ~payment.isCod /\ payment.status = "initiated"]_vars

\* C13 witness: an order placed with an online method and its initiated Payment
C13_Witness ==
    \E p \in 1..Len(payments) :
        /\ payments[p].method \in {"upi", "card", "wallet"}
        /\ payments[p].status = "initiated" /\ ~payments[p].isCod
        /\ orders[payments[p].order].payment.method = payments[p].method
        /\ \E r \in Reqs : PlaceDone(r) /\ req[r].result = "ok" /\ req[r].oid = payments[p].order

\* the line item is unavailable or asks for more than the stock
Offending(item) ==
    \/ ~products[item.product].isActive
    \/ ~variants[item.variantId].isActive
    \/ variants[item.variantId].stock < item.quantity

\* C14: the stock validation of placeOrder looks at every line item: each turn
\* lists the item exactly when it is unavailable or above the stock and goes on to
\* the next item; after the last item the request is rejected with the whole
\* list when the list is not empty; and no turn creates an Order or a Payment,
\* changes stock or touches the cart.
C14_EveryStockIssueListed ==
    [][\A r \in Reqs :
          (req[r].op = "place" /\ req[r].pc = "validate" /\ req'[r] # req[r])
          => LET item == req[r].cart[1].items[req[r].i + 1]
                 last == req[r].i + 1 = Len(req[r].cart[1].items)
                 was == req[r].issues
                 now == req'[r].issues
             IN  /\ Offending(item)
                      => /\ Len(now) = Len(was) + 1
                         /\ now[Len(now)].variantId = item.variantId
                         /\ SubSeq(now, 1, Len(was)) = was
                 /\ ~Offending(item) => now = was
                 /\ ~last => req'[r].pc = "validate" /\ req'[r].i = req[r].i + 1
                 /\ (last /\ now # <<>>)
                      => req'[r].pc = "done" /\ req'[r].result = "rejected"
                 /\ (last /\ now = <<>>) => req'[r].pc = "saveOrder"
                 /\ orders' = orders /\ payments' = payments
                 /\ variants' = variants /\ carts' = carts]_vars

\* C14 witness: a checkout rejected with both line items listed, the cart still
\* active and no order made
C14_Witness ==
    \E r \in Reqs :
        /\ PlaceDone(r) /\ req[r].result = "rejected"
        /\ Len(req[r].issues) = 2
        /\ req[r].issues[1].variantId # req[r].issues[2].variantId
        /\ carts[req[r].cid].status = "active"
        /\ orders = <<>> /\ payments = <<>>

\* the request has taken stock for its cart's items
Decremented(r) ==
    /\ req[r].op = "place"
    /\ req[r].pc \in {"reduceStock", "saveCart", "commit", "done"}
    /\ req[r].i > 0

\* C15: each cart is converted into at most one order: the cart of an order is
\* stored with status converted, no cart has two orders, and no two placeOrder
\* requests have both taken stock for the items of the same cart.
C15_CartConvertedOnce ==
    /\ \A o \in 1..Len(orders) : carts[orders[o].cart].status = "converted"
    /\ \A o1, o2 \in 1..Len(orders) : orders[o1].cart = orders[o2].cart => o1 = o2
    /\ \A r1, r2 \in Reqs :
          (Decremented(r1) /\ Decremented(r2) /\ req[r1].cid = req[r2].cid) => r1 = r2

\* the item of the example: unit price 100, quantity 2, mrp 120, discount 10,
\* gst 5%, with the tax exclusive or inclusive
ExampleItem(inclusive) ==
    [product |-> "p1", variantId |-> "v1", unitPrice |-> 10000, mrp |-> 12000,
     discount |-> 10, tax |-> [gstPercent |-> 5, inclusive |-> inclusive],
     quantity |-> 2, subtotal |-> 0, isActive |-> TRUE]

\* C16: calculateCartTotals returns grandTotal = subtotal + taxAmount when any
\* line item carries exclusive tax and grandTotal = subtotal otherwise; for the
\* example item with exclusive tax it returns subtotal 200, totalDiscount 40,
\* taxAmount 10, grandTotal 210, and for the same item with inclusive tax
\* grandTotal 200.
C16_GrandTotalRule ==
    \A r \in Reqs :
        (req[r].op = "totals" /\ req[r].pc = "done")
        => LET items == req[r].cart[1].items
               t == req[r].cart[1].totals
           IN  /\ (\E i \in 1..Len(items) : ~items[i].tax.inclusive)
                     => t.grandTotal = t.subtotal + t.taxAmount
               /\ (\A i \in 1..Len(items) : items[i].tax.inclusive)
                     => t.grandTotal = t.subtotal
               /\ items = <<ExampleItem(FALSE)>>
                     => /\ t.subtotal = 20000 /\ t.totalDiscount = 4000
                        /\ t.taxAmount = 1000 /\ t.grandTotal = 21000
               /\ items = <<ExampleItem(TRUE)>>
                     => t.subtotal = 20000 /\ t.grandTotal = 20000

\* C16 witness: the totals of the example item with exclusive tax have been computed
C16_Witness ==
    \E r \in Reqs :
        /\ req[r].op = "totals" /\ req[r].pc = "done"
        /\ req[r].cart[1].items = <<ExampleItem(FALSE)>>
        /\ req[r].cart[1].totals.grandTotal = 21000

\* the quantity of variant v that the active cart of user u holds
InCart(u, v) ==
    IF findActiveCart(u) = 0 THEN 0 ELSE QtyOf(carts[findActiveCart(u)].items, v)

\* C17: an addItem whose quantity, or whose quantity plus the quantity the cart
\* already holds of that (product, variant) pair, exceeds the variant's current
\* stock is rejected and leaves the stored carts unchanged.
C17_AddBeyondStockRejected ==
    [][\A r \in Reqs :
          ( /\ req[r].pc = "idle" /\ req'[r].op = "add"
            /\ req'[r].i >= 1
            /\ \/ req'[r].i > variants[req'[r].arg].stock
               \/ InCart(req'[r].user, req'[r].arg) + req'[r].i > variants[req'[r].arg].stock )
          => /\ req'[r].result = "rejected"
             /\ carts' = carts]_vars

\* C17 witness: an add of a variant the cart already holds up to the stock has
\* been rejected for the stock, the cart as it was
C17_Witness ==
    \E r \in Reqs :
        /\ req[r].op = "add" /\ req[r].pc = "done" /\ req[r].result = "rejected"
        /\ req[r].issues = <<"Cannot add more">>
        /\ InCart(req[r].user, req[r].arg) >= 1
        /\ InCart(req[r].user, req[r].arg) + req[r].i > variants[req[r].arg].stock

\* the active carts of a user
ActiveCarts(u) == {c \in 1..Len(carts) : carts[c].user = u /\ carts[c].status = "active"}

\* C18: at any time a user has at most one cart with status "active", also
\* when two add requests of a user who has no cart yet run concurrently
C18_OneActiveCartPerUser == \A u \in Users : Cardinality(ActiveCarts(u)) <= 1

\* the addresses of a user that are marked as the default
DefaultAddresses(u) == {a \in UserAddresses(addresses, u) : addresses[a].isDefault}

\* C19: after any sequence of address add, update, set-default and delete
\* requests (none of them still running), a user who has at least one address
\* has exactly one address with isDefault = true
C19_ExactlyOneDefault ==
    (\A r \in Reqs : ~Running(r)) =>
        \A u \in Users : UserAddresses(addresses, u) # {} =>
            Cardinality(DefaultAddresses(u)) = 1

C29_CancelledOrderRestored ==
    \A o \in 1..Len(orders) :
        (orders[o].status = "cancelled" /\ OrderQuiet(o))
        => /\ \A k \in 1..Len(orders[o].items) : hist.restored[o][k] >= 1
           /\ findPayment(o) # 0
           /\ payments[findPayment(o)].status = "cancelled"

\* C30: a step of verifyPayment on an order that is cancelled, delivered or
\* returned leaves the order's payment sub-document and the linked Payment
\* unchanged
C30_VerifyLeavesTerminalOrder ==
    [][\A r \in Reqs :
          ( /\ req[r].op = "verify" /\ Running(r)
            /\ req'[r] # req[r]
            /\ orders[req[r].oid].status \in TerminalStatuses )
          => /\ orders'[req[r].oid].payment = orders[req[r].oid].payment
             /\ payments' = payments]_vars

\* C25: no step of a cart handler (add, update, remove, clear, validate)
\* changes the stock of any variant: a step that writes a cart or answers a
\* cart request leaves every stock as it was
C25_CartOperationsKeepStock ==
    [][(carts' # carts \/ req' # req)
          => \A v \in Variants : variants'[v].stock = variants[v].stock]_vars

\* a cart has been cleared while a variant in it was in stock
C25_Witness ==
    \E c \in 1..Len(carts) :
        /\ carts[c].status = "deleted"
        /\ \E v \in Variants : variants[v].stock > 0

\* C27: no active cart with zero line items is stored
C27_NoEmptyActiveCart ==
    \A c \in 1..Len(carts) : carts[c].status = "active" => Len(carts[c].items) > 0

\* the last line of a cart was removed and the cart is gone; the user has
\* started another cart since
C27_Witness ==
    \E c, d \in 1..Len(carts) :
        /\ carts[c].status = "deleted"
        /\ carts[d].status = "active"
        /\ carts[d].user = carts[c].user

\* C28: a validate request that completes on a non-empty cart leaves in it
\* exactly the lines whose product and variant are active, in their order, each
\* with the variant's current price as unitPrice; the cart is deleted when no
\* line is left
C28_ValidateKeepsAvailableItems ==
    [][\A r \in Reqs :
          ( /\ req[r].pc = "idle"
            /\ req'[r].op = "validate" /\ req'[r].result = "ok"
            /\ findActiveCart(req'[r].user) # 0 )
          => LET c == findActiveCart(req'[r].user)
                 kept == SelectSeq(carts[c].items, Available)
             IN  IF kept = <<>> THEN carts'[c].status = "deleted"
                 ELSE /\ carts'[c].status = "active"
                      /\ Len(carts'[c].items) = Len(kept)
                      /\ \A i \in 1..Len(kept) :
                            /\ carts'[c].items[i].variantId = kept[i].variantId
                            /\ products[carts'[c].items[i].product].isActive
                            /\ variants[carts'[c].items[i].variantId].isActive
                            /\ carts'[c].items[i].unitPrice
                                  = variants[carts'[c].items[i].variantId].price]_vars

\* a validate request has answered with a price change, and the cart's line
\* carries the new price
C28_Witness ==
    \E r \in Reqs :
        /\ req[r].op = "validate" /\ req[r].pc = "done" /\ req[r].result = "ok"
        /\ \E k \in 1..Len(req[r].issues) : req[r].issues[k] = "Price changed"
        /\ findActiveCart(req[r].user) # 0
        /\ \E i \in 1..Len(carts[findActiveCart(req[r].user)].items) :
              LET item == carts[findActiveCart(req[r].user)].items[i]
              IN  /\ item.unitPrice # InitVariants[item.variantId].price
                  /\ item.unitPrice = variants[item.variantId].price

\* C26: no cart holds two line items with the same (product, variant) pair
C26_NoDuplicateLines ==
    \A c \in 1..Len(carts) :
        \A i, j \in 1..Len(carts[c].items) :
            ( /\ carts[c].items[i].product = carts[c].items[j].product
              /\ carts[c].items[i].variantId = carts[c].items[j].variantId ) => i = j

\* C23: no two orders share an order number
C23_OrderNumbersUnique ==
    \A o1, o2 \in 1..Len(orders) :
        orders[o1].orderNumber = orders[o2].orderNumber => o1 = o2

\* a checkout that generated the number of an order stored meanwhile was refused
C23_Witness ==
    \E r \in Reqs :
        /\ req[r].op = "number" /\ req[r].pc = "done" /\ req[r].result = "error"
        /\ \E o \in 1..Len(orders) : orders[o].orderNumber = req[r].orderNumber

C21_ExactlyOneDefaultVariant ==
    \A p \in Products :
        products[p].created => Cardinality(DefaultVariants(products[p].variants)) = 1

\* C22: once every review request has completed, each product's reviewsCount
\* is the number of its active reviews and its rating is their average rounded
\* to one decimal (0 when there are none), so that recomputing changes nothing
C22_RatingMatchesReviews ==
    (\A r \in Reqs : ~Running(r)) =>
        \A p \in Products :
            /\ products[p].reviewsCount = ProductRating(reviews, p).reviewsCount
            /\ products[p].rating = ProductRating(reviews, p).rating

====
